---- MODULE Spec2Model ----
(***************************************************************************)
(* Local KV data resolution layer of the Cloudflare KV explorer:           *)
(* KVDataProvider (namespace resolver and entry store accessor) running    *)
(* against the on-disk store that the local development runtime owns.      *)
(*                                                                         *)
(* The store is external state.  The provider only reads it; the runtime  *)
(* (the Runtime... actions) writes and deletes database files and blob     *)
(* directories.  A query through a handle reads the database file that is  *)
(* at the handle's path when the query runs.  Each operation is one step:  *)
(* the provider's calls do not overlap and the store does not change while *)
(* one runs.  Database.close() either closes the handle or throws and      *)
(* leaves it open; both callers swallow the exception.                     *)
(*                                                                         *)
(* Spec is the provider under direct calls with the runtime changing the   *)
(* store.  SearchSpec is the live search of registerKVTreeView (the quick  *)
(* pick's debounce timer and the search passes it starts, each suspended   *)
(* at its awaits) with KVTreeProvider.performSearch, over a store that     *)
(* stays as it is; its passes call the same provider.  MatchSpec applies   *)
(* the text functions of the search (fuzzyMatch, the callers' key test)    *)
(* to inputs drawn from bounded sets of texts.                             *)
(***************************************************************************)
EXTENDS Integers, Sequences, FiniteSets, TLC

\* ------------------------------------------------------------------ bounds
\* Number of events the environment produces in one run: changes the
\* external runtime makes to the store, and close() calls that throw.
MaxStoreChanges == 2
\* Number of input events (onDidChangeValue) of one quick pick.
MaxInputs == 2
\* Time passes in steps of TickMs milliseconds.
TickMs == 250
\* Longest text and longest search string that the text functions are
\* applied to.
MaxTextLen == 5
MaxSearchLen == 2
\* Longest run of text before and after a match in a value that a preview
\* is made of.
MaxPad == 21

\* --------------------------------------------------------------- universe
Projects == {"P1", "P2"}
Namespaces == {"N1"}
\* The candidate database files a project's candidate directory may hold.
DbFileNames(p) == IF p = "P1" THEN {"d1", "d2"} ELSE {"d1"}
BlobIds == {"b1", "b2"}
\* The keys callers ask getValue for (rows may hold other keys too).
Keys == {1, 2}

\* Path of a candidate database: <kvPath>/miniflare-KVNamespaceObject/<file>
Paths == { d \in Projects \X {"d1", "d2"} : d[2] \in DbFileNames(d[1]) }
\* null
NoPath == << >>
NoValue == << >>

\* `getSampleBlobIds(dbPath, 3)`
SampleLimit == 3

Row(k, b) == [key |-> k, blobId |-> b]

\* A database file: the rows of _mf_entries in the order an unordered SELECT
\* yields them, and which of its queries the store fails ("ok": none).
Db(rows, fault) == [rows |-> rows, fault |-> fault]
NoFile == Db(<< >>, "absent")

\* The database files the runtime may write.
DbContents ==
    { Db(<< >>, "ok"),
      Db(<< Row(2, "b1") >>, "ok"),
      Db(<< Row(2, "b2"), Row(1, "b1") >>, "ok"),
      Db(<< Row(3, "b1"), Row(1, "b1"), Row(4, "b1"), Row(2, "b2") >>, "ok"),
      Db(<< Row(2, "b1") >>, "count"),
      Db(<< Row(2, "b1") >>, "sample"),
      Db(<< Row(2, "b1") >>, "read") }

\* A namespace directory <kvPath>/<namespaceId>/blobs: whether it exists and
\* the content files in it.
BlobDir(exists, files) == [exists |-> exists, files |-> files]
NoDir == BlobDir(FALSE, {})
BlobDirContents == { BlobDir(TRUE, S) : S \in SUBSET BlobIds }

\* Text of the content file <kvPath>/<namespaceId>/blobs/<blobId>
BlobText(p, n, b) == << p, n, b >>

\* A project's store before the runtime wrote anything, and after the
\* runtime stored one entry of one namespace.
SeedDb == Db(<< Row(2, "b1") >>, "ok")
SeedBlobs == BlobDir(TRUE, {"b1"})
Provisioned == [Projects -> BOOLEAN]

\* Handle cache slot
NoHandle == "none"

VARIABLES
    miniflareDir,        \* [Projects -> BOOLEAN]: candidate directory exists
    dbFiles,             \* [Paths -> database file or NoFile]
    blobs,               \* [Projects \X Namespaces -> blob directory]
    namespaceDbMapping,  \* KVDataProvider.namespaceDbMapping
    dbCache,             \* KVDataProvider.dbCache: path -> handle state
    leakedHandles,       \* paths with an open handle that is in no cache
    last,                \* the last operation, its arguments and outcome
    storeChanges,        \* number of runtime changes and throwing closes so far
    quickPick,           \* the quick pick of the searchKeys command
    timers,              \* searchTimeout and the timers that are pending
    passes,              \* the search passes, one per timer callback that ran
    tree,                \* KVTreeProvider: workers, kvEntries, searchTerm, searchResults
    calc,                \* a text function's arguments and what it returned
    documents,           \* KVDocumentProvider: contentCache, the calls in flight
    discovery,           \* the projects' configuration files, the last findWorkers call
    ops                  \* the provider's calls in flight: the await each one is at

storeVars == << miniflareDir, dbFiles, blobs >>
providerVars == << namespaceDbMapping, dbCache, leakedHandles >>
searchVars == << quickPick, timers, passes, tree >>
\* What a step of the provider or of the runtime leaves alone.
extensionVars == << quickPick, timers, passes, tree, calc, documents, discovery, ops >>
\* What a step of the search leaves alone, the provider apart.
offSearchVars == << calc, documents, discovery, ops >>
vars == << miniflareDir, dbFiles, blobs, namespaceDbMapping, dbCache,
           leakedHandles, last, storeChanges, quickPick, timers, passes, tree, calc,
           documents, discovery, ops >>

\* ------------------------------------------------------------ the store
\* fs.access(<database path>)
DbFileExists(dbPath) == dbFiles[dbPath].fault # "absent"

\* fs.access(<kvPath>/<namespaceId>/blobs/<blobId>)
BlobExists(p, n, blobId) == blobs[<< p, n >>].exists /\ blobId \in blobs[<< p, n >>].files

\* The candidate files of a project's candidate directory (fs.readdir and
\* the .sqlite filter).
SqliteFiles(p) == { f \in DbFileNames(p) : DbFileExists(<< p, f >>) }

\* fs.readdir gives the files in an order the provider does not control.
Orders(S) == { s \in [1 .. Cardinality(S) -> S] : \A i, j \in 1 .. Cardinality(S) : s[i] = s[j] => i = j }

\* The store cannot answer query q on the database file at dbPath
\* ("count", "sample", "entries", "get": the four SELECTs of the accessor).
\* A file with fault "read" answers the two queries of resolve and fails
\* the entries query and the key lookup.
StoreErrs(dbPath, q) ==
    \/ dbFiles[dbPath].fault \in {"absent", q, "all"}
    \/ dbFiles[dbPath].fault = "read" /\ q \in {"entries", "get"}

\* ------------------------------------------------------- entry store accessor
\* Faulty variant: the `dbCache.has` test left out.
Opens_Always(cache, dbPath) == TRUE

\* getDatabase constructs a handle (new sqlite3.Database): none is cached.
Opens(cache, dbPath) == cache[dbPath] = NoHandle

\* getDatabase: the handle cached for dbPath, opened when none is cached.
getDatabase(cache, dbPath) ==
    IF Opens(cache, dbPath) THEN [cache EXCEPT ![dbPath] = "open"] ELSE cache

\* The number of handles that `calls` successive getDatabase(dbPath) calls
\* construct, starting from cache.
RECURSIVE Constructed(_, _, _)
Constructed(cache, dbPath, calls) ==
    IF calls = 0 THEN 0
    ELSE (IF Opens(cache, dbPath) THEN 1 ELSE 0)
         + Constructed(getDatabase(cache, dbPath), dbPath, calls - 1)

\* Faulty variant: the callback does not look at err.
QueryFails_IgnoresErr(cache, dbPath, q) == FALSE

\* The store reports an error (err # null) for query q through the handle
\* cached for dbPath.
QueryFails(cache, dbPath, q) ==
    \/ getDatabase(cache, dbPath)[dbPath] # "open"
    \/ StoreErrs(dbPath, q)

\* getEntryCount: SELECT COUNT(*); 0 on error.
getEntryCount(cache, dbPath) ==
    IF QueryFails(cache, dbPath, "count") THEN 0 ELSE Len(dbFiles[dbPath].rows)

\* getSampleBlobIds: SELECT blob_id ... LIMIT limit; [] on error.
getSampleBlobIds(cache, dbPath, limit) ==
    IF QueryFails(cache, dbPath, "sample") THEN << >>
    ELSE LET rows == dbFiles[dbPath].rows
             m == IF Len(rows) < limit THEN Len(rows) ELSE limit
         IN [i \in 1 .. m |-> rows[i].blobId]

\* ORDER BY key
RECURSIVE OrderByKey(_)
OrderByKey(rowSet) ==
    IF rowSet = {} THEN << >>
    ELSE LET least == CHOOSE r \in rowSet : \A q \in rowSet : r.key <= q.key
         IN << least >> \o OrderByKey(rowSet \ {least})

\* Faulty variant: the SELECT without ORDER BY.
queryEntries_Unordered(cache, dbPath) ==
    IF QueryFails(cache, dbPath, "entries") THEN << >> ELSE dbFiles[dbPath].rows

\* queryEntries: SELECT ... ORDER BY key; [] on error.
queryEntries(cache, dbPath) ==
    IF QueryFails(cache, dbPath, "entries") THEN << >>
    ELSE LET rows == dbFiles[dbPath].rows
         IN OrderByKey({ rows[i] : i \in 1 .. Len(rows) })

\* Faulty variant: the WHERE clause left out (the first row answers).
getBlobId_FirstRow(cache, dbPath, key) ==
    IF QueryFails(cache, dbPath, "get") \/ dbFiles[dbPath].rows = << >> THEN NoValue
    ELSE << dbFiles[dbPath].rows[1].blobId >>

\* getBlobId: SELECT blob_id ... WHERE key = ?; null on error or no row.
getBlobId(cache, dbPath, key) ==
    IF QueryFails(cache, dbPath, "get") THEN NoValue
    ELSE LET rows == dbFiles[dbPath].rows
             hits == { i \in 1 .. Len(rows) : rows[i].key = key }
         IN IF hits = {} THEN NoValue
            ELSE << rows[CHOOSE i \in hits : \A j \in hits : i <= j].blobId >>

\* --------------------------------------------------------- namespace resolver
\* Faulty variant of the sample loop: no break at a miss.
RECURSIVE TestSamples_NoBreak(_, _, _, _, _, _)
TestSamples_NoBreak(p, n, sampleBlobs, i, matchCount, tested) ==
    IF i > Len(sampleBlobs)
    THEN [matchCount |-> matchCount, checkedCount |-> Len(tested), tested |-> tested]
    ELSE IF BlobExists(p, n, sampleBlobs[i])
    THEN TestSamples_NoBreak(p, n, sampleBlobs, i + 1, matchCount + 1,
                             Append(tested, sampleBlobs[i]))
    ELSE TestSamples_NoBreak(p, n, sampleBlobs, i + 1, matchCount,
                             Append(tested, sampleBlobs[i]))

\* The sample loop: test each sampled id for existence in the namespace's
\* blob directory, counting, and break at the first miss.
RECURSIVE TestSamples(_, _, _, _, _, _)
TestSamples(p, n, sampleBlobs, i, matchCount, tested) ==
    IF i > Len(sampleBlobs)
    THEN [matchCount |-> matchCount, checkedCount |-> Len(tested), tested |-> tested]
    ELSE IF BlobExists(p, n, sampleBlobs[i])
    THEN TestSamples(p, n, sampleBlobs, i + 1, matchCount + 1, Append(tested, sampleBlobs[i]))
    ELSE [matchCount |-> matchCount, checkedCount |-> Len(tested) + 1,
          tested |-> Append(tested, sampleBlobs[i])]

\* Faulty variant of the acceptance test: `matchCount > 0` left out.
IsMatch_AllowsNoSample(matchCount, checkedCount) == matchCount = checkedCount

\* `matchCount === checkedCount && matchCount > 0`
IsMatch(matchCount, checkedCount) == matchCount = checkedCount /\ matchCount > 0

\* What one pass of the candidate loop body did for dbPath: the handles it
\* constructed, the count, the samples taken (if the count was not 0), the
\* ids tested (t is the sample loop's result), and whether the candidate is
\* accepted.
Probed(dbPath, opens, count, sampled, sampleBlobs, t) ==
    [db |-> dbPath, opens |-> opens, count |-> count, sampled |-> sampled,
     samples |-> sampleBlobs, tested |-> t.tested,
     accepted |-> sampled /\ IsMatch(t.matchCount, t.checkedCount)]

NothingTested == [matchCount |-> 0, checkedCount |-> 0, tested |-> << >>]

\* The loop body after the sample query answered sampleBlobs.
CheckSamples(p, n, dbPath, opens, count, sampleBlobs) ==
    Probed(dbPath, opens, count, TRUE, sampleBlobs, TestSamples(p, n, sampleBlobs, 1, 0, << >>))

\* The loop body after the count query answered count: `continue` on 0.
CheckCount(p, n, cache, dbPath, count) ==
    IF count = 0
    THEN Probed(dbPath, Constructed(cache, dbPath, 1), 0, FALSE, << >>, NothingTested)
    ELSE CheckSamples(p, n, dbPath, Constructed(cache, dbPath, 2), count,
                      getSampleBlobIds(cache, dbPath, SampleLimit))

\* One pass of the candidate loop body for dbPath.
ProbeCandidate(p, n, cache, dbPath) ==
    CheckCount(p, n, cache, dbPath, getEntryCount(cache, dbPath))

\* What the candidate loop ends with.
Resolution(found, mapping, cache, probes) ==
    [found |-> found, mapping |-> mapping, cache |-> cache, probes |-> probes]

\* The candidate loop over sqliteFiles from index i (ProbeCandidates), and
\* the end of one pass (Decide): an accepted candidate is cached in the
\* mapping and returned, otherwise the loop goes on with the next file.
\* `opened` is the handle cache after getDatabase opened the candidate.
RECURSIVE ProbeCandidates(_, _, _, _, _, _, _)
RECURSIVE Decide(_, _, _, _, _, _, _, _)

\* Faulty variant: a rejected candidate ends the loop (return for continue).
Decide_StopsAtReject(p, n, sqliteFiles, i, mapping, opened, probes, probe) ==
    IF probe.accepted
    THEN Resolution(probe.db, [mapping EXCEPT ![n] = probe.db], opened, Append(probes, probe))
    ELSE Resolution(NoPath, mapping, opened, Append(probes, probe))

\* Faulty variant: an accepted candidate is cached but the loop goes on, so
\* the last accepted candidate is returned (rest is the loop's remainder).
LastOf(rest, dbPath) ==
    IF rest.found = NoPath
    THEN Resolution(dbPath, rest.mapping, rest.cache, rest.probes)
    ELSE rest

Decide_LastMatchWins(p, n, sqliteFiles, i, mapping, opened, probes, probe) ==
    IF probe.accepted
    THEN LastOf(ProbeCandidates(p, n, sqliteFiles, i + 1, [mapping EXCEPT ![n] = probe.db],
                                opened, Append(probes, probe)), probe.db)
    ELSE ProbeCandidates(p, n, sqliteFiles, i + 1, mapping, opened, Append(probes, probe))

\* Faulty variant: the mapping is set before the acceptance test.
Decide_CachesBeforeTest(p, n, sqliteFiles, i, mapping, opened, probes, probe) ==
    IF probe.accepted
    THEN Resolution(probe.db, [mapping EXCEPT ![n] = probe.db], opened, Append(probes, probe))
    ELSE ProbeCandidates(p, n, sqliteFiles, i + 1, [mapping EXCEPT ![n] = probe.db], opened,
                         Append(probes, probe))

\* Faulty variant: the handle of a rejected candidate is closed and dropped.
Decide_ClosesRejected(p, n, sqliteFiles, i, mapping, opened, probes, probe) ==
    IF probe.accepted
    THEN Resolution(probe.db, [mapping EXCEPT ![n] = probe.db], opened, Append(probes, probe))
    ELSE ProbeCandidates(p, n, sqliteFiles, i + 1, mapping,
                         [opened EXCEPT ![probe.db] = NoHandle], Append(probes, probe))

Decide(p, n, sqliteFiles, i, mapping, opened, probes, probe) ==
    IF probe.accepted
    THEN Resolution(probe.db, [mapping EXCEPT ![n] = probe.db], opened, Append(probes, probe))
    ELSE ProbeCandidates(p, n, sqliteFiles, i + 1, mapping, opened, Append(probes, probe))

ProbeCandidates(p, n, sqliteFiles, i, mapping, cache, probes) ==
    IF i > Len(sqliteFiles)
    THEN Resolution(NoPath, mapping, cache, probes)
    ELSE Decide(p, n, sqliteFiles, i, mapping, getDatabase(cache, << p, sqliteFiles[i] >>),
                probes, ProbeCandidate(p, n, cache, << p, sqliteFiles[i] >>))

\* Faulty variants of the cache check: the access test inverted to always
\* fail, and the access test left out.
CachedPathExists_AlwaysMissing(cachedPath) == FALSE

CachedPathExists_Unchecked(cachedPath) == TRUE

\* The cache check's `await fs.access(cachedPath)` succeeds.
CachedPathExists(cachedPath) == DbFileExists(cachedPath)

\* Faulty variant of the catch branch: the mapping entry is dropped but the
\* handle stays in the handle cache, open.
Invalidate_KeepsHandle(n, cachedPath, mapping, cache, leaked, closeThrows) ==
    [mapping |-> [mapping EXCEPT ![n] = NoPath],
     cache |-> cache,
     leaked |-> leaked,
     closed |-> NoPath,
     closeFailed |-> NoPath]

\* Faulty variant of the catch branch: the handle is removed from the
\* handle cache without being closed.
Invalidate_DropsOpenHandle(n, cachedPath, mapping, cache, leaked, closeThrows) ==
    [mapping |-> [mapping EXCEPT ![n] = NoPath],
     cache |-> [cache EXCEPT ![cachedPath] = NoHandle],
     leaked |-> IF cache[cachedPath] = "open" THEN leaked \cup {cachedPath} ELSE leaked,
     closed |-> NoPath,
     closeFailed |-> NoPath]

\* The catch branch of the cache check: drop the mapping entry, close the
\* handle cached for cachedPath (if any) and remove it from the handle cache.
\* `closed` names the path whose handle was closed.  When close() throws
\* (closeThrows) the exception is swallowed: the handle leaves the handle
\* cache still open (`closeFailed` names its path).
Invalidate(n, cachedPath, mapping, cache, leaked, closeThrows) ==
    [mapping |-> [mapping EXCEPT ![n] = NoPath],
     cache |-> [cache EXCEPT ![cachedPath] = NoHandle],
     leaked |-> IF cache[cachedPath] = "open" /\ closeThrows
                THEN leaked \cup {cachedPath} ELSE leaked,
     closed |-> IF cache[cachedPath] = "open" /\ ~closeThrows THEN cachedPath ELSE NoPath,
     closeFailed |-> IF cache[cachedPath] = "open" /\ closeThrows THEN cachedPath ELSE NoPath]

\* No cache entry: nothing to invalidate.
NotCached == [mapping |-> namespaceDbMapping, cache |-> dbCache,
              leaked |-> leakedHandles, closed |-> NoPath, closeFailed |-> NoPath]

\* The outcome r of the candidate loop (or of an early return) with the
\* directory checks that were made.
Checked(r, checkedBlobsDir, enumerated) ==
    [found |-> r.found, mapping |-> r.mapping, cache |-> r.cache, probes |-> r.probes,
     checkedBlobsDir |-> checkedBlobsDir, enumerated |-> enumerated]

\* Faulty variant of steps 2..8: the blob directory is not checked.
Probe_SkipsBlobDirCheck(p, n, order, mapping, cache) ==
    IF ~miniflareDir[p]
    THEN Checked(Resolution(NoPath, mapping, cache, << >>), FALSE, FALSE)
    ELSE Checked(ProbeCandidates(p, n, order, 1, mapping, cache, << >>), FALSE, TRUE)

\* Steps 2..8: directory checks, enumeration in the order readdir gives,
\* and the candidate loop.
Probe(p, n, order, mapping, cache) ==
    IF ~miniflareDir[p]
    THEN Checked(Resolution(NoPath, mapping, cache, << >>), FALSE, FALSE)
    ELSE IF ~blobs[<< p, n >>].exists
    THEN Checked(Resolution(NoPath, mapping, cache, << >>), TRUE, FALSE)
    ELSE Checked(ProbeCandidates(p, n, order, 1, mapping, cache, << >>), TRUE, TRUE)

\* Return of the cached path.
CacheHit(cachedPath) ==
    [found |-> cachedPath, mapping |-> namespaceDbMapping, cache |-> dbCache,
     leaked |-> leakedHandles, cachedPath |-> cachedPath, hit |-> TRUE,
     invalidated |-> FALSE, closed |-> NoPath, closeFailed |-> NoPath,
     checkedDir |-> FALSE, checkedBlobsDir |-> FALSE, enumerated |-> FALSE,
     order |-> << >>, probes |-> << >>]

\* Return after the cache check did not return: inv is the provider state
\* the cache check left, r the outcome of steps 2..8.
CacheMiss(order, cachedPath, inv, r) ==
    [found |-> r.found, mapping |-> r.mapping, cache |-> r.cache, leaked |-> inv.leaked,
     cachedPath |-> cachedPath, hit |-> FALSE, invalidated |-> cachedPath # NoPath,
     closed |-> inv.closed, closeFailed |-> inv.closeFailed, checkedDir |-> TRUE,
     checkedBlobsDir |-> r.checkedBlobsDir,
     enumerated |-> r.enumerated, order |-> IF r.enumerated THEN order ELSE << >>,
     probes |-> r.probes]

Reprobe(p, n, order, cachedPath, inv) ==
    CacheMiss(order, cachedPath, inv, Probe(p, n, order, inv.mapping, inv.cache))

\* findDatabaseForNamespace(kvPath of p, n), with readdir answering `order`
\* and the invalidation's close() throwing or not.
findDatabaseForNamespace(p, n, order, closeThrows) ==
    IF namespaceDbMapping[n] = NoPath
    THEN Reprobe(p, n, order, NoPath, NotCached)
    ELSE IF CachedPathExists(namespaceDbMapping[n])
    THEN CacheHit(namespaceDbMapping[n])
    ELSE Reprobe(p, n, order, namespaceDbMapping[n],
                 Invalidate(n, namespaceDbMapping[n], namespaceDbMapping, dbCache, leakedHandles,
                            closeThrows))

\* The outcomes of the close() call of a resolve for n: it can throw only
\* when the resolve closes a handle.
CloseOutcomes(n) ==
    IF /\ namespaceDbMapping[n] # NoPath
       /\ ~DbFileExists(namespaceDbMapping[n])
       /\ dbCache[namespaceDbMapping[n]] = "open"
       /\ storeChanges < MaxStoreChanges
    THEN BOOLEAN ELSE {FALSE}

\* A close() that threw during a resolve counts as an environment event.
CountCloseFailure(r) ==
    storeChanges' = IF r.closeFailed # NoPath THEN storeChanges + 1 ELSE storeChanges

\* ------------------------------------------------------------------ actions
NoResolve ==
    [found |-> NoPath, cachedPath |-> NoPath, hit |-> FALSE, invalidated |-> FALSE,
     closed |-> NoPath, closeFailed |-> NoPath, checkedDir |-> FALSE,
     checkedBlobsDir |-> FALSE, enumerated |-> FALSE, order |-> << >>, probes |-> << >>]

\* What the last operation's resolve step did (the state it returns aside).
ResolveTrace(r) ==
    [found |-> r.found, cachedPath |-> r.cachedPath, hit |-> r.hit,
     invalidated |-> r.invalidated, closed |-> r.closed, closeFailed |-> r.closeFailed,
     checkedDir |-> r.checkedDir,
     checkedBlobsDir |-> r.checkedBlobsDir, enumerated |-> r.enumerated,
     order |-> r.order, probes |-> r.probes]

\* What the last operation was and did: its arguments, its resolve step,
\* what it returned (threw: an exception left it instead), and the handles
\* its own query constructed (opens; those of its resolve step are in res).
Outcome(op, p, n, key, res, entries, value) ==
    [op |-> op, p |-> p, n |-> n, key |-> key, res |-> res, entries |-> entries,
     value |-> value, threw |-> FALSE, opens |-> 0]

\* new KVDataProvider()
NewProvider ==
    /\ namespaceDbMapping = [n \in Namespaces |-> NoPath]
    /\ dbCache = [d \in Paths |-> NoHandle]
    /\ leakedHandles = {}
    /\ last = Outcome("new", "", "", 0, NoResolve, << >>, NoValue)
    /\ storeChanges = 0

\* getKVData after findDatabaseForNamespace returned r.
ListEntries(p, n, r) ==
    /\ namespaceDbMapping' = r.mapping
    /\ leakedHandles' = r.leaked
    /\ IF r.found = NoPath
       THEN /\ dbCache' = r.cache
            /\ last' = Outcome("getKVData", p, n, 0, ResolveTrace(r), << >>, NoValue)
       ELSE /\ dbCache' = getDatabase(r.cache, r.found)
            /\ last' = [Outcome("getKVData", p, n, 0, ResolveTrace(r),
                                queryEntries(r.cache, r.found), NoValue)
                        EXCEPT !.opens = Constructed(r.cache, r.found, 1)]
    /\ CountCloseFailure(r)
    /\ UNCHANGED storeVars

\* getKVData(workerPath of p, n)
getKVData(p, n) ==
    \E order \in Orders(SqliteFiles(p)), closeThrows \in CloseOutcomes(n) :
        ListEntries(p, n, findDatabaseForNamespace(p, n, order, closeThrows))

\* Faulty variant: a content file that cannot be read yields the empty text.
ReadBlob_EmptyOnMiss(p, n, blobId) ==
    IF blobId = NoValue THEN NoValue
    ELSE IF BlobExists(p, n, blobId[1]) THEN BlobText(p, n, blobId[1])
    ELSE << "" >>

\* fs.readFile of the content file of blobId (a one-element tuple, or
\* NoValue when getBlobId found nothing); null when it cannot be read.
ReadBlob(p, n, blobId) ==
    IF blobId = NoValue THEN NoValue
    ELSE IF BlobExists(p, n, blobId[1]) THEN BlobText(p, n, blobId[1])
    ELSE NoValue

\* Faulty variant: a content file found missing is created empty.
ReadValue_CreatesMissingBlob(p, n, key, r) ==
    /\ namespaceDbMapping' = r.mapping
    /\ leakedHandles' = r.leaked
    /\ IF r.found = NoPath
       THEN /\ dbCache' = r.cache
            /\ last' = Outcome("getValue", p, n, key, ResolveTrace(r), << >>, NoValue)
            /\ UNCHANGED blobs
       ELSE /\ dbCache' = getDatabase(r.cache, r.found)
            /\ last' = Outcome("getValue", p, n, key, ResolveTrace(r), << >>,
                               ReadBlob(p, n, getBlobId(r.cache, r.found, key)))
            /\ blobs' = [blobs EXCEPT ![<< p, n >>].files =
                             @ \cup { getBlobId(r.cache, r.found, key)[i] :
                                        i \in 1 .. Len(getBlobId(r.cache, r.found, key)) }]
    /\ CountCloseFailure(r)
    /\ UNCHANGED << miniflareDir, dbFiles >>

\* getValue after findDatabaseForNamespace returned r.
ReadValue(p, n, key, r) ==
    /\ namespaceDbMapping' = r.mapping
    /\ leakedHandles' = r.leaked
    /\ IF r.found = NoPath
       THEN /\ dbCache' = r.cache
            /\ last' = Outcome("getValue", p, n, key, ResolveTrace(r), << >>, NoValue)
       ELSE /\ dbCache' = getDatabase(r.cache, r.found)
            /\ last' = [Outcome("getValue", p, n, key, ResolveTrace(r), << >>,
                                ReadBlob(p, n, getBlobId(r.cache, r.found, key)))
                        EXCEPT !.opens = Constructed(r.cache, r.found, 1)]
    /\ CountCloseFailure(r)
    /\ UNCHANGED storeVars

\* getValue(workerPath of p, n, key)
getValue(p, n, key) ==
    \E order \in Orders(SqliteFiles(p)), closeThrows \in CloseOutcomes(n) :
        ReadValue(p, n, key, findDatabaseForNamespace(p, n, order, closeThrows))

\* The paths with a handle in the handle cache (dbCache.values()).
CachedHandles == { d \in Paths : dbCache[d] # NoHandle }

\* The sets of cached handles whose close() may throw in one dispose.
CloseFailures ==
    { T \in SUBSET CachedHandles : storeChanges + Cardinality(T) <= MaxStoreChanges }

\* Faulty variant: no try/catch around close(), so the first close() that
\* throws ends dispose with that exception, before the caches are cleared.
dispose_StopsAtFailedClose ==
    \E throwing \in CloseFailures :
        /\ IF throwing = {}
           THEN /\ dbCache' = [d \in Paths |-> NoHandle]
                /\ namespaceDbMapping' = [n \in Namespaces |-> NoPath]
                /\ last' = Outcome("dispose", "", "", 0, NoResolve, << >>, NoValue)
           ELSE /\ UNCHANGED << dbCache, namespaceDbMapping >>
                /\ last' = [Outcome("dispose", "", "", 0, NoResolve, << >>, NoValue)
                            EXCEPT !.threw = TRUE]
        /\ storeChanges' = storeChanges + Cardinality(throwing)
        /\ UNCHANGED << storeVars, leakedHandles >>

\* dispose(): close every cached handle, clear both caches.  A close() that
\* throws (the handles in `throwing`) is logged and the loop goes on; such a
\* handle leaves the handle cache still open.
dispose ==
    \E throwing \in CloseFailures :
        /\ dbCache' = [d \in Paths |-> NoHandle]
        /\ namespaceDbMapping' = [n \in Namespaces |-> NoPath]
        /\ leakedHandles' = leakedHandles \cup throwing
        /\ last' = Outcome("dispose", "", "", 0, NoResolve, << >>, NoValue)
        /\ storeChanges' = storeChanges + Cardinality(throwing)
        /\ UNCHANGED storeVars

\* The external runtime changes the store.
RuntimeChange ==
    /\ storeChanges < MaxStoreChanges
    /\ storeChanges' = storeChanges + 1
    /\ last' = Outcome("runtime", "", "", 0, NoResolve, << >>, NoValue)
    /\ UNCHANGED providerVars

RuntimeWritesDb(p, f, c) ==
    /\ dbFiles[<< p, f >>] # c
    /\ dbFiles' = [dbFiles EXCEPT ![<< p, f >>] = c]
    /\ miniflareDir' = [miniflareDir EXCEPT ![p] = TRUE]
    /\ UNCHANGED blobs
    /\ RuntimeChange

RuntimeDeletesDb(p, f) ==
    /\ DbFileExists(<< p, f >>)
    /\ dbFiles' = [dbFiles EXCEPT ![<< p, f >>] = NoFile]
    /\ UNCHANGED << miniflareDir, blobs >>
    /\ RuntimeChange

RuntimeDeletesCandidateDir(p) ==
    /\ miniflareDir[p]
    /\ miniflareDir' = [miniflareDir EXCEPT ![p] = FALSE]
    /\ dbFiles' = [d \in Paths |-> IF d[1] = p THEN NoFile ELSE dbFiles[d]]
    /\ UNCHANGED blobs
    /\ RuntimeChange

RuntimeWritesBlobs(p, n, d) ==
    /\ blobs[<< p, n >>] # d
    /\ blobs' = [blobs EXCEPT ![<< p, n >>] = d]
    /\ UNCHANGED << miniflareDir, dbFiles >>
    /\ RuntimeChange

RuntimeDeletesNamespaceDir(p, n) ==
    /\ blobs[<< p, n >>].exists
    /\ blobs' = [blobs EXCEPT ![<< p, n >>] = NoDir]
    /\ UNCHANGED << miniflareDir, dbFiles >>
    /\ RuntimeChange

\* ------------------------------------------------------------- search state
\* setTimeout(..., 500)
DebounceMs == 500

\* The timers and passes of one quick pick: the n-th input event creates
\* timer n, whose callback is search pass n.
PassIds == 1 .. MaxInputs

\* What the user types into the quick pick (texts are tuples of characters).
QueryValues == { << >>, << "a" >>, << "C" >>, << "z" >> }

\* The text of key k, and of the content file with blob id b.
KeyText(k) == IF k = 1 THEN << "A", "b" >> ELSE IF k = 2 THEN << "c" >> ELSE << "k" >>
ValueText(b) ==
    IF b = "b2" THEN << "B", "a" >>
    ELSE IF b = "b0" THEN << >>
    ELSE IF b = "bj" THEN << "{", " ", "}" >>
    ELSE << "x" >>
\* The characters of what getValue returned.
TextOf(content) == ValueText(content[3])

\* A search pass that has not started.  (overlapped: another pass ran
\* while this one was running.)
IdlePass ==
    [pc |-> "idle", value |-> << >>, workers |-> << >>, i |-> 1, entries |-> << >>,
     e |-> 1, results |-> << >>, matchingKeys |-> {}, overlapped |-> FALSE]

\* The quick pick: shown or hidden, its busy flag and items, the number of
\* input events so far, and the search pass that assigned the items.
QuickPick(open, busy, items, inputs, itemsOf) ==
    [open |-> open, busy |-> busy, items |-> items, inputs |-> inputs, itemsOf |-> itemsOf]

\* searchTimeout (0: undefined), the timers not yet fired or cleared with
\* the time left to each, and the time since the last input event.
Timers(searchTimeout, pending, sinceInput) ==
    [searchTimeout |-> searchTimeout, pending |-> pending, sinceInput |-> sinceInput]

\* KVTreeProvider's fields, the searching context key, the search pass
\* whose performSearch last wrote searchTerm or searchResults, and whether
\* a fullRefresh is waiting for findWorkers.
Tree(workers, kvEntries, searchTerm, searchResults, searching, filterOf) ==
    [workers |-> workers, kvEntries |-> kvEntries, searchTerm |-> searchTerm,
     searchResults |-> searchResults, searching |-> searching, filterOf |-> filterOf,
     refreshing |-> FALSE]

\* `${worker.path}:${namespace.id}`
CacheKeys == Projects \X Namespaces
\* An absent entry of the kvEntries map (no row has the key 0).
NotListed == << Row(0, "none") >>
NoEntries == [c \in CacheKeys |-> NotListed]
NoResults == [c \in CacheKeys |-> {}]

\* new KVTreeProvider(...), and the quick pick as the searchKeys command
\* creates it (shown: open).
NewSearch(open) ==
    /\ quickPick = QuickPick(open, FALSE, << >>, 0, 0)
    /\ timers = Timers(0, {}, 0)
    /\ passes = [id \in PassIds |-> IdlePass]
    /\ tree = Tree(<< >>, NoEntries, << >>, NoResults, FALSE, 0)

\* No text function has been called.
NoCall == [op |-> "none", text |-> << >>, search |-> << >>, out |-> FALSE]

\* The calls of getKVData and getValue that can be in flight together.
OpIds == {1, 2}
\* A call that has returned (or was never made): what it returned.
\* (disposed: the provider has been disposed of; overtaken: while the call
\* was about to invalidate, another call cached a path for its namespace.)
Returned(out) ==
    [pc |-> "idle", kind |-> "none", p |-> "P1", n |-> "N1", key |-> 0,
     cachedPath |-> NoPath, files |-> << >>, i |-> 0, dbPath |-> NoPath,
     samples |-> << >>, j |-> 0, matchCount |-> 0, blobId |-> NoValue, out |-> out,
     disposed |-> FALSE, overtaken |-> FALSE]
\* No call is in flight.
NoCalls == [o \in OpIds |-> Returned(NoValue)]

\* What WranglerParser.parse meets in a project's wrangler.toml: a
\* configuration it returns, a file it cannot read, or text that the TOML
\* parser rejects.
ConfigStates == {"ok", "unreadable", "malformed"}
\* No call of findWorkers has returned.
NoDiscovery == [called |-> FALSE, configs |-> << >>, dirs |-> << >>,
                workers |-> << >>, threw |-> FALSE]
\* Every project's configuration parses; findWorkers has not been called.
NewDiscovery == [configs |-> [p \in Projects |-> "ok"], found |-> NoDiscovery]

\* createKVUri(workerPath, namespaceId, key): the documents of the entries.
Uris == { u \in Projects \X Namespaces \X Keys : u[1] = "P1" /\ u[2] = "N1" }
\* An absent entry of the contentCache map.
NoContent == << "no content" >>
\* The text provideTextDocumentContent returns for falsy content.
Placeholder == << "// KV entry not found" >>
\* new KVDocumentProvider(...): contentCache, the calls of
\* provideTextDocumentContent suspended in getValue, and the URIs whose
\* change event the editor has not answered yet.  With them: the URIs whose
\* suspended call, or whose cached content's call, was in flight when
\* refresh ran for the URI (raced), what the last call of
\* provideTextDocumentContent returned (out), the clipboard, and the URI the
\* copyValue command last ran for (asked).
NewDocuments ==
    [contentCache |-> [u \in Uris |-> NoContent], pending |-> {}, changed |-> {},
     raced |-> {}, out |-> NoContent, clipboard |-> NoContent, asked |-> << >>]

\* The store as the runtime left it, a new provider, no search running.
Init ==
    /\ \E prov \in Provisioned :
        /\ miniflareDir = prov
        /\ dbFiles = [d \in Paths |-> IF prov[d[1]] /\ d[2] = "d1" THEN SeedDb ELSE NoFile]
        /\ blobs = [d \in Projects \X Namespaces |->
                        IF prov[d[1]] /\ d[2] = "N1" THEN SeedBlobs ELSE NoDir]
    /\ NewProvider
    /\ NewSearch(FALSE)
    /\ calc = NoCall
    /\ documents = NewDocuments
    /\ discovery = NewDiscovery
    /\ ops = NoCalls

Next ==
    \/ \E p \in Projects, n \in Namespaces : getKVData(p, n) /\ UNCHANGED extensionVars
    \/ \E p \in Projects, n \in Namespaces, key \in Keys :
          getValue(p, n, key) /\ UNCHANGED extensionVars
    \/ dispose /\ UNCHANGED extensionVars
    \/ \E p \in Projects, c \in DbContents : \E f \in DbFileNames(p) :
          RuntimeWritesDb(p, f, c) /\ UNCHANGED extensionVars
    \/ \E p \in Projects : \E f \in DbFileNames(p) :
          RuntimeDeletesDb(p, f) /\ UNCHANGED extensionVars
    \/ \E p \in Projects : RuntimeDeletesCandidateDir(p) /\ UNCHANGED extensionVars
    \/ \E p \in Projects, n \in Namespaces, d \in BlobDirContents :
          RuntimeWritesBlobs(p, n, d) /\ UNCHANGED extensionVars
    \/ \E p \in Projects, n \in Namespaces :
          RuntimeDeletesNamespaceDir(p, n) /\ UNCHANGED extensionVars

Spec == Init /\ [][Next]_vars

TypeOK ==
    /\ miniflareDir \in [Projects -> BOOLEAN]
    /\ namespaceDbMapping \in [Namespaces -> Paths \cup {NoPath}]
    /\ dbCache \in [Paths -> {NoHandle, "open", "closed"}]
    /\ leakedHandles \subseteq Paths
    /\ storeChanges \in 0 .. MaxStoreChanges

\* ------------------------------------------------------------------ texts
Min(a, b) == IF a < b THEN a ELSE b
Max(a, b) == IF a < b THEN b ELSE a

\* String.prototype.toLowerCase, on the characters the model uses.
Lower(ch) ==
    IF ch = "A" THEN "a" ELSE IF ch = "B" THEN "b" ELSE IF ch = "C" THEN "c"
    ELSE IF ch = "X" THEN "x" ELSE ch
toLowerCase(text) == [i \in 1 .. Len(text) |-> Lower(text[i])]

\* Faulty variant: a character that does not match starts the search
\* string over.
RECURSIVE FuzzyScan_RestartsOnMiss(_, _, _, _)
FuzzyScan_RestartsOnMiss(text, search, i, searchIndex) ==
    IF i < Len(text) /\ searchIndex < Len(search)
    THEN FuzzyScan_RestartsOnMiss(text, search, i + 1,
                   IF text[i + 1] = search[searchIndex + 1] THEN searchIndex + 1
                   ELSE 0)
    ELSE searchIndex

\* The loop of fuzzyMatch from (i, searchIndex), both counted from 0; its
\* value is searchIndex when the loop ends.
RECURSIVE FuzzyScan(_, _, _, _)
FuzzyScan(text, search, i, searchIndex) ==
    IF i < Len(text) /\ searchIndex < Len(search)
    THEN FuzzyScan(text, search, i + 1,
                   IF text[i + 1] = search[searchIndex + 1] THEN searchIndex + 1
                   ELSE searchIndex)
    ELSE searchIndex

fuzzyMatch(text, search) == FuzzyScan(text, search, 0, 0) = Len(search)

\* keyMatch of the live loop: the callers' test of a key against a query.
keyMatch(key, value) == fuzzyMatch(toLowerCase(key), toLowerCase(value))

\* String.prototype.includes
includes(text, search) ==
    \E start \in 0 .. Len(text) - Len(search) :
        \A j \in 1 .. Len(search) : text[start + j] = search[j]

\* String.prototype.indexOf, counted from 0; -1 when search is not in text.
indexOf(text, search) ==
    IF includes(text, search)
    THEN CHOOSE start \in 0 .. Len(text) - Len(search) :
            /\ \A j \in 1 .. Len(search) : text[start + j] = search[j]
            /\ \A before \in 0 .. start - 1 :
                  \E j \in 1 .. Len(search) : text[before + j] # search[j]
    ELSE -1

\* String.prototype.substring(start, end), for 0 <= start <= end <= length.
substring(text, start, end) == SubSeq(text, start + 1, end)

\* Faulty variant: the pattern is a line feed, which a backslash followed
\* by n is not.
RECURSIVE replaceEscapedNewlines_LineFeed(_)
replaceEscapedNewlines_LineFeed(text) ==
    IF text = << >> THEN << >>
    ELSE IF Head(text) = "LF" THEN << " " >> \o replaceEscapedNewlines_LineFeed(Tail(text))
    ELSE << Head(text) >> \o replaceEscapedNewlines_LineFeed(Tail(text))

\* String.prototype.replace(/\\n/g, ' '): each backslash followed by n
\* becomes one space.
RECURSIVE replaceEscapedNewlines(_)
replaceEscapedNewlines(text) ==
    IF text = << >> THEN << >>
    ELSE IF Len(text) >= 2 /\ text[1] = "\\" /\ text[2] = "n"
    THEN << " " >> \o replaceEscapedNewlines(SubSeq(text, 3, Len(text)))
    ELSE << Head(text) >> \o replaceEscapedNewlines(Tail(text))

\* The number of characters of context before and after the match.
PreviewContext == 20
\* '...'
Ellipsis == << ".", ".", "." >>

\* valuePreview, from the start and end of the snippet.
PreviewOf(content, start, end) ==
    (IF start > 0 THEN Ellipsis ELSE << >>)
    \o replaceEscapedNewlines(substring(content, start, end))
    \o (IF end < Len(content) THEN Ellipsis ELSE << >>)

\* valuePreview, from the index of the first match.
PreviewAt(content, value, index) ==
    PreviewOf(content, Max(0, index - PreviewContext),
              Min(Len(content), index + Len(value) + PreviewContext))

\* valuePreview of the live loop, for a content that includes the value.
valuePreview(content, value) ==
    PreviewAt(content, value, indexOf(toLowerCase(content), toLowerCase(value)))

\* `if (content)`: neither null nor the empty string.
Truthy(content) == content # NoValue /\ TextOf(content) # << >>

\* --------------------------------------------------------- worker discovery
\* The order in which discovery visits the projects of the workspace.
ProjectOrder == << "P1", "P2" >>

\* WranglerParser.parse(<p>/wrangler.toml) throws: readFile or the TOML
\* parser failed, and parse rethrows what it caught.
ParseThrows(p) == discovery.configs[p] # "ok"

\* Faulty variant: the loop has no try/catch, a parse failure ends the call.
RECURSIVE DiscoverFrom_NoCatch(_, _)
DiscoverFrom_NoCatch(files, workers) ==
    IF files = << >> THEN [workers |-> workers, threw |-> FALSE]
    ELSE IF ParseThrows(Head(files)) THEN [workers |-> << >>, threw |-> TRUE]
    ELSE IF miniflareDir[Head(files)]
    THEN DiscoverFrom_NoCatch(Tail(files), Append(workers, Head(files)))
    ELSE DiscoverFrom_NoCatch(Tail(files), workers)

\* The loop of findWorkers over the configuration files still to visit:
\* a project is pushed when its configuration parses and its runtime-state
\* directory exists (the runtime creates it together with the project's KV
\* store); a parse failure is caught and the loop goes on.
RECURSIVE DiscoverFrom(_, _)
DiscoverFrom(files, workers) ==
    IF files = << >> THEN [workers |-> workers, threw |-> FALSE]
    ELSE IF ParseThrows(Head(files)) THEN DiscoverFrom(Tail(files), workers)
    ELSE IF miniflareDir[Head(files)]
    THEN DiscoverFrom(Tail(files), Append(workers, Head(files)))
    ELSE DiscoverFrom(Tail(files), workers)

\* WorkerDiscovery.findWorkers: the workers it returns.
findWorkers == DiscoverFrom(ProjectOrder, << >>).workers

\* worker.kvNamespaces: the namespace ids a project's configuration binds.
kvNamespaces(p) == << "N1" >>

\* The (worker, namespace) pairs in the order the two nested loops of a
\* search visit them.
RECURSIVE Bindings(_)
Bindings(workers) ==
    IF workers = << >> THEN << >>
    ELSE [j \in 1 .. Len(kvNamespaces(Head(workers))) |->
              << Head(workers), kvNamespaces(Head(workers))[j] >>]
         \o Bindings(Tail(workers))

\* ------------------------------------------------------------- live search
\* quickPick.value: the value of the latest input event.
CurrentValue == IF quickPick.inputs = 0 THEN << >> ELSE passes[quickPick.inputs].value

\* A timer created by setTimeout.
Timer(id, remaining) == [id |-> id, remaining |-> remaining]

\* clearTimeout(searchTimeout), when searchTimeout is set.
clearTimeout(pending, searchTimeout) == { t \in pending : t.id # searchTimeout }

\* A step of the search that calls nothing outside it.
ProviderUnchanged ==
    UNCHANGED << storeVars, providerVars, last, storeChanges, offSearchVars >>

\* Faulty variant: the previous timer is not cleared.
Input_NoClear(v) ==
    /\ quickPick.open
    /\ quickPick.inputs < MaxInputs
    /\ v # CurrentValue
    /\ quickPick' = [quickPick EXCEPT !.inputs = @ + 1]
    /\ timers' = Timers(quickPick.inputs + 1,
                        timers.pending \cup {Timer(quickPick.inputs + 1, DebounceMs)}, 0)
    /\ passes' = [passes EXCEPT ![quickPick.inputs + 1].value = v]
    /\ UNCHANGED tree
    /\ ProviderUnchanged

\* onDidChangeValue(v): clear the previous timer, start a new one whose
\* callback searches for v.
Input(v) ==
    /\ quickPick.open
    /\ quickPick.inputs < MaxInputs
    /\ v # CurrentValue
    /\ quickPick' = [quickPick EXCEPT !.inputs = @ + 1]
    /\ timers' = Timers(quickPick.inputs + 1,
                        clearTimeout(timers.pending, timers.searchTimeout)
                            \cup {Timer(quickPick.inputs + 1, DebounceMs)}, 0)
    /\ passes' = [passes EXCEPT ![quickPick.inputs + 1].value = v]
    /\ UNCHANGED tree
    /\ ProviderUnchanged

\* TickMs milliseconds pass while a timer is running.
Tick ==
    /\ \E t \in timers.pending : t.remaining > 0
    /\ timers' = [timers EXCEPT
                    !.pending = { Timer(t.id, Max(t.remaining - TickMs, 0)) : t \in @ },
                    !.sinceInput = Min(@ + TickMs, DebounceMs)]
    /\ UNCHANGED << quickPick, passes, tree >>
    /\ ProviderUnchanged

\* onDidHide: clear the timer, dispose the quick pick.
Hide ==
    /\ quickPick.open
    /\ quickPick' = [quickPick EXCEPT !.open = FALSE]
    /\ timers' = [timers EXCEPT !.pending = clearTimeout(@, timers.searchTimeout)]
    /\ UNCHANGED << passes, tree >>
    /\ ProviderUnchanged

\* Faulty variant: the match sets are kept.
clearSearch_KeepsResults(tr, id) ==
    [tr EXCEPT !.searchTerm = << >>, !.searching = FALSE, !.filterOf = id]

\* clearSearch(), called by search pass id.
clearSearch(tr, id) ==
    [tr EXCEPT !.searchTerm = << >>, !.searchResults = NoResults, !.searching = FALSE,
               !.filterOf = id]

\* A pass that has started and is suspended at an await.
Running(ps) == ps.pc \notin {"idle", "done"}

\* The passes when pass id starts and goes to pc.
Started(id, pc) ==
    [j \in PassIds |->
        IF j = id
        THEN [passes[j] EXCEPT !.pc = pc,
                               !.overlapped = \E k \in PassIds : Running(passes[k])]
        ELSE IF Running(passes[j]) THEN [passes[j] EXCEPT !.overlapped = TRUE]
        ELSE passes[j]]

\* The timer callback of input id starts: search pass id.  An empty value
\* clears the search; any other value goes on to `await getWorkers()`.
Fire(id) ==
    /\ Timer(id, 0) \in timers.pending
    /\ timers' = [timers EXCEPT !.pending = @ \ {Timer(id, 0)}]
    /\ IF passes[id].value = << >>
       THEN /\ quickPick' = [quickPick EXCEPT !.items = << >>, !.busy = FALSE,
                                              !.itemsOf = id]
            /\ tree' = clearSearch(tree, id)
            /\ passes' = Started(id, "done")
       ELSE /\ quickPick' = [quickPick EXCEPT !.busy = TRUE]
            /\ passes' = Started(id, "workers")
            /\ UNCHANGED tree
    /\ ProviderUnchanged

\* Where the live loop of pass ps goes after an await returned: to the
\* getValue of the next entry, to the getKVData of the next namespace, or
\* past the loops ("apply").
LiveStep(ps) ==
    IF ps.e <= Len(ps.entries) THEN [ps EXCEPT !.pc = "value"]
    ELSE IF ps.i < Len(Bindings(ps.workers))
    THEN [ps EXCEPT !.pc = "list", !.i = @ + 1, !.entries = << >>, !.e = 1]
    ELSE [ps EXCEPT !.pc = "apply"]

\* performSearch(searchTerm, false) called by pass id, up to its first
\* await or, for an empty term, to its end: the tree it leaves.
performSearch(tr, searchTerm, id) ==
    [tr EXCEPT !.searchTerm = toLowerCase(searchTerm), !.searchResults = NoResults,
               !.searching = (searchTerm # << >>), !.filterOf = id]

\* The live loop of pass id goes on from ps, with the tree as tr.  Past the
\* loops it assigns quickPick.items and, the value not being empty, calls
\* performSearch(value, false), which runs up to its `await findWorkers()`.
LiveContinue(id, ps, tr) ==
    IF LiveStep(ps).pc = "apply"
    THEN /\ quickPick' = [quickPick EXCEPT !.items = ps.results, !.busy = FALSE,
                                           !.itemsOf = id]
         /\ tree' = performSearch(tr, ps.value, id)
         /\ passes' = [passes EXCEPT ![id] = [ps EXCEPT !.pc = "tworkers"]]
    ELSE /\ passes' = [passes EXCEPT ![id] = LiveStep(ps)]
         /\ tree' = tr
         /\ UNCHANGED quickPick

\* getWorkers(): this.workers, discovered first when it is empty.
getWorkers(tr) == IF tr.workers = << >> THEN findWorkers ELSE tr.workers

\* `await treeProvider.getWorkers()` of pass id returns.  (With no worker
\* the pass also awaits findWorkers and drops its result.)
LiveGetWorkers(id) ==
    /\ passes[id].pc = "workers"
    /\ LiveContinue(id, [passes[id] EXCEPT !.workers = getWorkers(tree), !.i = 0],
                    [tree EXCEPT !.workers = getWorkers(tree)])
    /\ UNCHANGED timers
    /\ ProviderUnchanged

\* The (worker, namespace) pair that pass ps is at.
Binding(ps) == Bindings(ps.workers)[ps.i]

\* `await kvDataProvider.getKVData(worker.path, namespace.id)` of the live
\* loop of pass id.
LiveList(id) ==
    /\ passes[id].pc = "list"
    /\ getKVData(Binding(passes[id])[1], Binding(passes[id])[2])
    /\ LiveContinue(id, [passes[id] EXCEPT !.entries = last'.entries, !.e = 1], tree)
    /\ UNCHANGED << timers, offSearchVars >>

\* Faulty variant: the value is not looked at.
LiveMatch_KeyOnly(key, content, value) == keyMatch(KeyText(key), value)

\* keyMatch || valueMatch of the live loop, for the entry with this key and
\* what getValue returned for it.
LiveMatch(key, content, value) ==
    \/ keyMatch(KeyText(key), value)
    \/ Truthy(content) /\ includes(toLowerCase(TextOf(content)), toLowerCase(value))

\* The quick pick item of an entry (_worker, _namespaceId, _key).
Item(pair, key) == << pair[1], pair[2], key >>

\* `await kvDataProvider.getValue(...)` of the live loop of pass id, for
\* the entry it is at.
LiveValue(id) ==
    /\ passes[id].pc = "value"
    /\ getValue(Binding(passes[id])[1], Binding(passes[id])[2],
                passes[id].entries[passes[id].e].key)
    /\ LiveContinue(id,
           [passes[id] EXCEPT
              !.results = IF LiveMatch(passes[id].entries[passes[id].e].key,
                                       last'.value, passes[id].value)
                          THEN Append(@, Item(Binding(passes[id]),
                                              passes[id].entries[passes[id].e].key))
                          ELSE @,
              !.e = @ + 1],
           tree)
    /\ UNCHANGED << timers, offSearchVars >>

\* ---------------------------------------------------------- performSearch
\* performSearch of pass id runs from ps, with the tree as tr, until its
\* next await or its end: past the entries of a namespace it stores the
\* matching keys, if any, and goes to the next namespace (listed from
\* kvEntries, or by `await getKVData`); at an entry it tests the key against
\* this.searchTerm and goes to `await getValue` when the key does not match.
RECURSIVE TreeRun(_, _, _)
TreeRun(id, ps, tr) ==
    IF ps.e <= Len(ps.entries)
    THEN IF fuzzyMatch(toLowerCase(KeyText(ps.entries[ps.e].key)), tr.searchTerm)
         THEN TreeRun(id, [ps EXCEPT !.matchingKeys = @ \cup {ps.entries[ps.e].key},
                                     !.e = @ + 1], tr)
         ELSE [ps |-> [ps EXCEPT !.pc = "tvalue"], tr |-> tr]
    ELSE IF ps.i >= 1 /\ ps.matchingKeys # {}
    THEN TreeRun(id, [ps EXCEPT !.matchingKeys = {}],
                 [tr EXCEPT !.searchResults[Binding(ps)] = ps.matchingKeys,
                            !.filterOf = id])
    ELSE IF ps.i < Len(Bindings(ps.workers))
    THEN IF tr.kvEntries[Bindings(ps.workers)[ps.i + 1]] # NotListed
         THEN TreeRun(id, [ps EXCEPT !.i = @ + 1, !.e = 1,
                                     !.entries = tr.kvEntries[Bindings(ps.workers)[ps.i + 1]]],
                      tr)
         ELSE [ps |-> [ps EXCEPT !.pc = "tlist", !.i = @ + 1, !.e = 1, !.entries = << >>],
               tr |-> tr]
    ELSE [ps |-> [ps EXCEPT !.pc = "done"], tr |-> tr]

TreeContinue(id, ps, tr) ==
    /\ passes' = [passes EXCEPT ![id] = TreeRun(id, ps, tr).ps]
    /\ tree' = TreeRun(id, ps, tr).tr
    /\ UNCHANGED << quickPick, timers >>

\* `await this.workerDiscovery.findWorkers()` of performSearch returns.
TreeWorkers(id) ==
    /\ passes[id].pc = "tworkers"
    /\ TreeContinue(id, [passes[id] EXCEPT !.workers = findWorkers, !.i = 0,
                                           !.entries = << >>, !.e = 1,
                                           !.matchingKeys = {}], tree)
    /\ ProviderUnchanged

\* `await this.kvDataProvider.getKVData(...)` of performSearch returns; the
\* entries go into kvEntries.
TreeList(id) ==
    /\ passes[id].pc = "tlist"
    /\ getKVData(Binding(passes[id])[1], Binding(passes[id])[2])
    /\ TreeContinue(id, [passes[id] EXCEPT !.entries = last'.entries, !.e = 1],
                    [tree EXCEPT !.kvEntries[Binding(passes[id])] = last'.entries])
    /\ UNCHANGED offSearchVars

\* `await this.kvDataProvider.getValue(...)` of performSearch returns.
TreeValue(id) ==
    /\ passes[id].pc = "tvalue"
    /\ getValue(Binding(passes[id])[1], Binding(passes[id])[2],
                passes[id].entries[passes[id].e].key)
    /\ TreeContinue(id,
           [passes[id] EXCEPT
              !.matchingKeys =
                  IF /\ Truthy(last'.value)
                     /\ includes(toLowerCase(TextOf(last'.value)), tree.searchTerm)
                  THEN @ \cup {passes[id].entries[passes[id].e].key} ELSE @,
              !.e = @ + 1],
           tree)
    /\ UNCHANGED offSearchVars

\* ------------------------------------------------------------ getChildren
\* `this.searchTerm && this.searchResults.size > 0`
Filtering(tr) ==
    tr.searchTerm # << >> /\ \E c \in CacheKeys : tr.searchResults[c] # {}

\* searchResults.has(key) && searchResults.get(key).size > 0
HasResults(tr, c) == tr.searchResults[c] # {}

\* getChildren(): the workers shown at the root.
rootChildren(tr) ==
    IF Filtering(tr)
    THEN SelectSeq(tr.workers,
                   LAMBDA p : \E j \in 1 .. Len(kvNamespaces(p)) :
                                 HasResults(tr, << p, kvNamespaces(p)[j] >>))
    ELSE tr.workers

\* getChildren(WorkerItem of p): the namespaces shown under a worker.
workerChildren(tr, p) ==
    IF Filtering(tr)
    THEN SelectSeq(kvNamespaces(p), LAMBDA n : HasResults(tr, << p, n >>))
    ELSE kvNamespaces(p)

\* getChildren(NamespaceItem of c): the keys shown under a namespace whose
\* entries are in kvEntries.
namespaceChildren(tr, c) ==
    IF Filtering(tr) /\ HasResults(tr, c)
    THEN SelectSeq(tr.kvEntries[c], LAMBDA entry : entry.key \in tr.searchResults[c])
    ELSE tr.kvEntries[c]

\* The elements of the tree: the root (getChildren()), the WorkerItem of a
\* project and the NamespaceItem of a project and namespace id.
Root == << "root" >>
WorkerItem(p) == << p >>
AllElements == {Root} \cup { WorkerItem(p) : p \in Projects } \cup CacheKeys

\* The elements the tree view may ask the children of.
Elements(tr) ==
    {Root} \cup { WorkerItem(tr.workers[j]) : j \in 1 .. Len(tr.workers) }
           \cup { Bindings(tr.workers)[j] : j \in 1 .. Len(Bindings(tr.workers)) }

\* getChildren(element), as the tree view calls it: at the root the
\* workers are discovered when none is known; under a namespace the entries
\* are listed when kvEntries has none for it.
getChildren(element) ==
    /\ element \in Elements(tree)
    /\ IF element = Root
       THEN /\ tree' = [tree EXCEPT !.workers = getWorkers(tree)]
            /\ ProviderUnchanged
       ELSE IF element \in CacheKeys /\ tree.kvEntries[element] = NotListed
       THEN /\ getKVData(element[1], element[2])
            /\ tree' = [tree EXCEPT !.kvEntries[element] = last'.entries]
            /\ UNCHANGED offSearchVars
       ELSE /\ UNCHANGED tree
            /\ ProviderUnchanged
    /\ UNCHANGED << quickPick, timers, passes >>

\* ------------------------------------------------------- the search system
\* The store the search runs over: one project with two entries.
SearchDb == Db(<< Row(2, "b2"), Row(1, "b1") >>, "ok")
SearchBlobs == BlobDir(TRUE, {"b1", "b2"})

SearchInit ==
    /\ miniflareDir = [p \in Projects |-> p = "P1"]
    /\ dbFiles = [d \in Paths |-> IF d = << "P1", "d1" >> THEN SearchDb ELSE NoFile]
    /\ blobs = [d \in Projects \X Namespaces |->
                    IF d = << "P1", "N1" >> THEN SearchBlobs ELSE NoDir]
    /\ NewProvider
    /\ NewSearch(TRUE)
    /\ calc = NoCall
    /\ documents = NewDocuments
    /\ discovery = NewDiscovery
    /\ ops = NoCalls

SearchNext ==
    \/ \E v \in QueryValues : Input(v)
    \/ Tick
    \/ Hide
    \/ \E id \in PassIds : Fire(id)
    \/ \E id \in PassIds : LiveGetWorkers(id)
    \/ \E id \in PassIds : LiveList(id)
    \/ \E id \in PassIds : LiveValue(id)
    \/ \E id \in PassIds : TreeWorkers(id)
    \/ \E id \in PassIds : TreeList(id)
    \/ \E id \in PassIds : TreeValue(id)
    \/ \E element \in AllElements : getChildren(element)

\* Time passes and a timer whose time is up runs its callback: the event
\* loop is never blocked, every pass being suspended at an await.
SearchSpec ==
    /\ SearchInit
    /\ [][SearchNext]_vars
    /\ WF_vars(Tick)
    /\ WF_vars(\E id \in PassIds : Fire(id))

\* What the store holds after the runtime rewrote the database between two
\* searches: the entry of key 1 is gone.
SearchDbAfter == Db(<< Row(2, "b2") >>, "ok")

\* The runtime rewrites the database of the searched project while no search
\* pass is in flight.
RuntimeBetweenSearches ==
    /\ \A id \in PassIds : ~Running(passes[id])
    /\ \E c \in {SearchDb, SearchDbAfter} : RuntimeWritesDb("P1", "d1", c)
    /\ UNCHANGED extensionVars

LiveStoreNext ==
    \/ SearchNext
    \/ RuntimeBetweenSearches

\* The search system over a store that the runtime changes between searches.
LiveStoreSpec == SearchInit /\ [][LiveStoreNext]_vars

\* ------------------------------------------------- documents and refresh
\* JSON.parse succeeds on the text (of the texts of the model: an empty
\* object, written with or without a blank).
IsJson(text) == text \in { << "{", "}" >>, << "{", " ", "}" >> }

\* JSON.stringify(JSON.parse(content), null, 2) when the content parses,
\* the content as it is when it does not.
formatContent(text) == IF IsJson(text) THEN << "{", "}" >> ELSE text

\* What leaves the tree, the search and the text functions alone.
OffDocuments == UNCHANGED << quickPick, timers, passes, tree, calc, discovery, ops >>

\* provideTextDocumentContent(uri) up to its return from the cache or to
\* its await of getValue.  The editor calling it answers the URI's change
\* event; a call that found the content in the cache has returned.
ProvideStart(uri) ==
    /\ uri \notin documents.pending
    /\ IF documents.contentCache[uri] # NoContent
       THEN documents' = [documents EXCEPT !.changed = @ \ {uri},
                                           !.out = documents.contentCache[uri]]
       ELSE documents' = [documents EXCEPT !.pending = @ \cup {uri}]
    /\ UNCHANGED << storeVars, providerVars, last, storeChanges >>
    /\ OffDocuments

\* provideTextDocumentContent(uri) from the return of getValue: falsy
\* content is not cached and the placeholder is returned, other content is
\* cached and returned as it is formatted.
ProvideReturn(uri) ==
    /\ uri \in documents.pending
    /\ getValue(uri[1], uri[2], uri[3])
    /\ documents' =
          [documents EXCEPT
              !.contentCache[uri] =
                  IF Truthy(last'.value) THEN formatContent(TextOf(last'.value)) ELSE @,
              !.pending = @ \ {uri},
              !.changed = @ \ {uri},
              !.raced = IF Truthy(last'.value) THEN @ ELSE @ \ {uri},
              !.out = IF Truthy(last'.value) THEN formatContent(TextOf(last'.value))
                      ELSE Placeholder]
    /\ OffDocuments

\* The copyValue command for the entry of uri: a truthy value is written
\* to the clipboard.
copyValue(uri) ==
    /\ getValue(uri[1], uri[2], uri[3])
    /\ documents' =
          [documents EXCEPT
              !.clipboard = IF Truthy(last'.value) THEN TextOf(last'.value) ELSE @,
              !.asked = uri]
    /\ OffDocuments

\* Faulty variant: the whole content cache is cleared.
refresh_ClearsAll(uri) ==
    /\ documents' = [documents EXCEPT !.contentCache = [u \in Uris |-> NoContent],
                                      !.changed = @ \cup {uri},
                                      !.raced = IF uri \in documents.pending
                                                THEN @ \cup {uri} ELSE @ \ {uri}]
    /\ UNCHANGED << storeVars, providerVars, last, storeChanges >>
    /\ OffDocuments

\* KVDocumentProvider.refresh(uri), as the refreshEntry command calls it.
refresh(uri) ==
    /\ documents' = [documents EXCEPT !.contentCache[uri] = NoContent,
                                      !.changed = @ \cup {uri},
                                      !.raced = IF uri \in documents.pending
                                                THEN @ \cup {uri} ELSE @ \ {uri}]
    /\ UNCHANGED << storeVars, providerVars, last, storeChanges >>
    /\ OffDocuments

\* fullRefresh() up to its await of findWorkers.
FullRefreshStart ==
    /\ ~tree.refreshing
    /\ tree' = [tree EXCEPT !.workers = << >>, !.kvEntries = NoEntries,
                            !.searchTerm = << >>, !.searchResults = NoResults,
                            !.searching = FALSE, !.refreshing = TRUE]
    /\ ProviderUnchanged
    /\ UNCHANGED << quickPick, timers, passes >>

\* fullRefresh() from the return of findWorkers.
FullRefreshReturn ==
    /\ tree.refreshing
    /\ tree' = [tree EXCEPT !.workers = findWorkers, !.refreshing = FALSE]
    /\ ProviderUnchanged
    /\ UNCHANGED << quickPick, timers, passes >>

\* The database files the runtime writes while the tree is browsed.
ViewDbContents ==
    { Db(<< Row(2, "b2"), Row(1, "b1") >>, "ok"),
      Db(<< Row(2, "b1"), Row(1, "b2") >>, "ok"),
      Db(<< Row(2, "b1") >>, "ok") }

\* One project with one namespace of two entries, a new provider, a new
\* tree and no document open.
ViewInit ==
    /\ miniflareDir = [p \in Projects |-> p = "P1"]
    /\ dbFiles = [d \in Paths |-> IF d = << "P1", "d1" >> THEN SearchDb ELSE NoFile]
    /\ blobs = [d \in Projects \X Namespaces |->
                    IF d = << "P1", "N1" >> THEN SearchBlobs ELSE NoDir]
    /\ NewProvider
    /\ NewSearch(FALSE)
    /\ calc = NoCall
    /\ documents = NewDocuments
    /\ discovery = NewDiscovery
    /\ ops = NoCalls

ViewNext ==
    \/ \E element \in AllElements : getChildren(element)
    \/ \E uri \in Uris : ProvideStart(uri)
    \/ \E uri \in Uris : ProvideReturn(uri)
    \/ \E uri \in Uris : refresh(uri)
    \/ FullRefreshStart
    \/ FullRefreshReturn
    \/ \E c \in ViewDbContents : RuntimeWritesDb("P1", "d1", c) /\ UNCHANGED extensionVars
    \/ RuntimeWritesDb("P2", "d1", SearchDb) /\ UNCHANGED extensionVars

\* The tree, the documents and the runtime of the workspace's projects.
ViewSpec == ViewInit /\ [][ViewNext]_vars

\* The stores the documents are opened over: a namespace whose values are
\* an empty string and a JSON text, and one whose values are plain texts,
\* the content file of one of them missing.
DocumentDbContents ==
    { Db(<< Row(2, "bj"), Row(1, "b0") >>, "ok"),
      Db(<< Row(2, "b2"), Row(1, "b1") >>, "ok") }
DocumentBlobs == BlobDir(TRUE, {"b0", "bj", "b1"})

DocumentInit ==
    /\ miniflareDir = [p \in Projects |-> p = "P1"]
    /\ \E c \in DocumentDbContents :
           dbFiles = [d \in Paths |-> IF d = << "P1", "d1" >> THEN c ELSE NoFile]
    /\ blobs = [d \in Projects \X Namespaces |->
                    IF d = << "P1", "N1" >> THEN DocumentBlobs ELSE NoDir]
    /\ NewProvider
    /\ NewSearch(FALSE)
    /\ calc = NoCall
    /\ documents = NewDocuments
    /\ discovery = NewDiscovery
    /\ ops = NoCalls

DocumentNext ==
    \/ \E uri \in Uris : ProvideStart(uri)
    \/ \E uri \in Uris : ProvideReturn(uri)
    \/ \E uri \in Uris : refresh(uri)
    \/ \E uri \in Uris : copyValue(uri)
    \/ \E c \in DocumentDbContents : RuntimeWritesDb("P1", "d1", c) /\ UNCHANGED extensionVars

\* Documents opened, refreshed and copied while the runtime writes.
DocumentSpec == DocumentInit /\ [][DocumentNext]_vars

\* ------------------------------------------------------------ discovery
\* What leaves the extension's other parts alone.
OffDiscovery ==
    UNCHANGED << providerVars, last, storeChanges, quickPick, timers, passes, tree, calc,
                 documents, ops >>

\* The user saves a project's wrangler.toml.
WriteConfig(p, c) ==
    /\ discovery.configs[p] # c
    /\ discovery' = [discovery EXCEPT !.configs[p] = c]
    /\ UNCHANGED storeVars
    /\ OffDiscovery

\* The runtime creates or removes a project's runtime-state directory.
SetRuntimeDir(p, exists) ==
    /\ miniflareDir[p] # exists
    /\ miniflareDir' = [miniflareDir EXCEPT ![p] = exists]
    /\ UNCHANGED << dbFiles, blobs, discovery >>
    /\ OffDiscovery

\* A call of findWorkers(): what it met and what it returned.
CallFindWorkers ==
    /\ discovery' =
          [discovery EXCEPT !.found =
              [called |-> TRUE, configs |-> discovery.configs, dirs |-> miniflareDir,
               workers |-> DiscoverFrom(ProjectOrder, << >>).workers,
               threw |-> DiscoverFrom(ProjectOrder, << >>).threw]]
    /\ UNCHANGED storeVars
    /\ OffDiscovery

\* A workspace whose projects have no runtime state yet.
DiscoveryInit ==
    /\ miniflareDir = [p \in Projects |-> FALSE]
    /\ dbFiles = [d \in Paths |-> NoFile]
    /\ blobs = [d \in Projects \X Namespaces |-> NoDir]
    /\ NewProvider
    /\ NewSearch(FALSE)
    /\ calc = NoCall
    /\ documents = NewDocuments
    /\ discovery = NewDiscovery
    /\ ops = NoCalls

DiscoveryNext ==
    \/ \E p \in Projects, c \in ConfigStates : WriteConfig(p, c)
    \/ \E p \in Projects, exists \in BOOLEAN : SetRuntimeDir(p, exists)
    \/ CallFindWorkers

\* The configuration files, the runtime-state directories and discovery.
DiscoverySpec == DiscoveryInit /\ [][DiscoveryNext]_vars

\* ------------------------------------------------------- calls in flight
\* The provider's calls step by step: each action runs one call from the
\* completion of the await it is suspended at up to its next await (or its
\* return), as the event loop runs it, with the store as it is then.
OffProvider ==
    UNCHANGED << last, quickPick, timers, passes, tree, calc, documents, discovery >>

\* getKVData(p, n) or getValue(p, n, key) is called and runs up to the
\* first await of findDatabaseForNamespace.
Call(o, kind, p, n, key) ==
    /\ ops[o].pc = "idle"
    /\ ~ops[o].disposed
    /\ ops' = [ops EXCEPT ![o] =
                  [Returned(NoValue) EXCEPT
                      !.pc = IF namespaceDbMapping[n] # NoPath THEN "access" ELSE "dir",
                      !.kind = kind, !.p = p, !.n = n, !.key = key,
                      !.cachedPath = namespaceDbMapping[n]]]
    /\ UNCHANGED << storeVars, providerVars, storeChanges >>
    /\ OffProvider

\* fs.access(cachedPath) settles.
AccessSettles(o) ==
    /\ ops[o].pc = "access"
    /\ ops' = [ops EXCEPT ![o].pc =
                  IF CachedPathExists(ops[o].cachedPath) THEN "accessed" ELSE "missing"]
    /\ UNCHANGED << storeVars, providerVars, storeChanges >>
    /\ OffProvider

\* The cache check returns the cached path.
ReturnCached(o) ==
    /\ ops[o].pc = "accessed"
    /\ ops' = [ops EXCEPT ![o].pc = "resolved", ![o].dbPath = ops[o].cachedPath]
    /\ UNCHANGED << storeVars, providerVars, storeChanges >>
    /\ OffProvider

\* The catch branch of the cache check, up to fs.access(miniflareDir).
Invalidation(o, closeThrows) ==
    /\ ops[o].pc = "missing"
    /\ closeThrows => dbCache[ops[o].cachedPath] = "open" /\ storeChanges < MaxStoreChanges
    /\ namespaceDbMapping' =
          Invalidate(ops[o].n, ops[o].cachedPath, namespaceDbMapping, dbCache, leakedHandles,
                     closeThrows).mapping
    /\ dbCache' =
          Invalidate(ops[o].n, ops[o].cachedPath, namespaceDbMapping, dbCache, leakedHandles,
                     closeThrows).cache
    /\ leakedHandles' =
          Invalidate(ops[o].n, ops[o].cachedPath, namespaceDbMapping, dbCache, leakedHandles,
                     closeThrows).leaked
    /\ storeChanges' = IF closeThrows THEN storeChanges + 1 ELSE storeChanges
    /\ ops' = [ops EXCEPT ![o].pc = "dir", ![o].overtaken = FALSE]
    /\ UNCHANGED storeVars
    /\ OffProvider

\* The call o returns out.
Return(o, out) ==
    ops' = [ops EXCEPT ![o] = [Returned(out) EXCEPT !.disposed = ops[o].disposed]]

\* The call's result when findDatabaseForNamespace returned null.
NotFound(op) == IF op.kind = "getKVData" THEN << >> ELSE NoValue

\* fs.access(miniflareDir) settles.
DirSettles(o) ==
    /\ ops[o].pc = "dir"
    /\ IF miniflareDir[ops[o].p]
       THEN ops' = [ops EXCEPT ![o].pc = "blobs"]
       ELSE Return(o, NotFound(ops[o]))
    /\ UNCHANGED << storeVars, providerVars, storeChanges >>
    /\ OffProvider

\* fs.access(nsBlobsPath) settles.
BlobsDirSettles(o) ==
    /\ ops[o].pc = "blobs"
    /\ IF blobs[<< ops[o].p, ops[o].n >>].exists
       THEN ops' = [ops EXCEPT ![o].pc = "readdir"]
       ELSE Return(o, NotFound(ops[o]))
    /\ UNCHANGED << storeVars, providerVars, storeChanges >>
    /\ OffProvider

\* The candidate loop reaches sqliteFiles[i]: getEntryCount opens or reuses
\* the candidate's handle and waits for the count; past the last file
\* findDatabaseForNamespace returns null.
TryCandidate(o, op, i) ==
    IF i > Len(op.files)
    THEN /\ Return(o, NotFound(op))
         /\ UNCHANGED dbCache
    ELSE /\ ops' = [ops EXCEPT ![o] =
                       [op EXCEPT !.pc = "count", !.i = i,
                                  !.dbPath = << op.p, op.files[i] >>,
                                  !.samples = << >>, !.j = 0, !.matchCount = 0]]
         /\ dbCache' = getDatabase(dbCache, << op.p, op.files[i] >>)

\* fs.readdir(miniflareDir) settles (it throws when the directory is gone).
ReaddirSettles(o) ==
    /\ ops[o].pc = "readdir"
    /\ \E order \in Orders(SqliteFiles(ops[o].p)) :
          TryCandidate(o, [ops[o] EXCEPT !.files = IF miniflareDir[ops[o].p] THEN order
                                                   ELSE << >>], 1)
    /\ UNCHANGED << storeVars, namespaceDbMapping, leakedHandles, storeChanges >>
    /\ OffProvider

\* The count query answers: `continue` on 0, else getSampleBlobIds opens or
\* reuses the handle and waits for the samples.
CountAnswers(o) ==
    /\ ops[o].pc = "count"
    /\ IF getEntryCount(dbCache, ops[o].dbPath) = 0
       THEN TryCandidate(o, ops[o], ops[o].i + 1)
       ELSE /\ ops' = [ops EXCEPT ![o].pc = "sample"]
            /\ dbCache' = getDatabase(dbCache, ops[o].dbPath)
    /\ UNCHANGED << storeVars, namespaceDbMapping, leakedHandles, storeChanges >>
    /\ OffProvider

\* The end of the sample loop: an accepted candidate is cached in the
\* mapping and returned, otherwise the loop goes on with the next file.
Accept(o, op) ==
    IF IsMatch(op.matchCount, op.j)
    THEN /\ namespaceDbMapping' = [namespaceDbMapping EXCEPT ![op.n] = op.dbPath]
         /\ ops' = [q \in OpIds |->
                       IF q = o THEN [op EXCEPT !.pc = "resolved"]
                       ELSE IF ops[q].pc = "missing" /\ ops[q].n = op.n
                       THEN [ops[q] EXCEPT !.overtaken = TRUE]
                       ELSE ops[q]]
         /\ UNCHANGED dbCache
    ELSE /\ TryCandidate(o, op, op.i + 1)
         /\ UNCHANGED namespaceDbMapping

\* The sample query answers; the sample loop starts with fs.access of the
\* first sampled id, if there is one.
SampleAnswers(o) ==
    /\ ops[o].pc = "sample"
    /\ IF getSampleBlobIds(dbCache, ops[o].dbPath, SampleLimit) = << >>
       THEN Accept(o, ops[o])
       ELSE /\ ops' = [ops EXCEPT ![o].pc = "blob",
                                  ![o].samples =
                                      getSampleBlobIds(dbCache, ops[o].dbPath, SampleLimit)]
            /\ UNCHANGED << namespaceDbMapping, dbCache >>
    /\ UNCHANGED << storeVars, leakedHandles, storeChanges >>
    /\ OffProvider

\* fs.access(blobPath) of the next sampled id settles: count a hit and go
\* on, or break at a miss.  (j: checkedCount.)
BlobSettles(o) ==
    /\ ops[o].pc = "blob"
    /\ IF BlobExists(ops[o].p, ops[o].n, ops[o].samples[ops[o].j + 1])
       THEN IF ops[o].j + 1 < Len(ops[o].samples)
            THEN /\ ops' = [ops EXCEPT ![o].j = @ + 1, ![o].matchCount = @ + 1]
                 /\ UNCHANGED << namespaceDbMapping, dbCache >>
            ELSE Accept(o, [ops[o] EXCEPT !.j = @ + 1, !.matchCount = @ + 1])
       ELSE Accept(o, [ops[o] EXCEPT !.j = @ + 1])
    /\ UNCHANGED << storeVars, leakedHandles, storeChanges >>
    /\ OffProvider

\* findDatabaseForNamespace has returned a path: queryEntries or getBlobId
\* opens or reuses its handle and waits for the rows.
Query(o) ==
    /\ ops[o].pc = "resolved"
    /\ ops' = [ops EXCEPT ![o].pc = IF ops[o].kind = "getKVData" THEN "entries" ELSE "get"]
    /\ dbCache' = getDatabase(dbCache, ops[o].dbPath)
    /\ UNCHANGED << storeVars, namespaceDbMapping, leakedHandles, storeChanges >>
    /\ OffProvider

\* The entries query answers and getKVData returns.
EntriesAnswer(o) ==
    /\ ops[o].pc = "entries"
    /\ Return(o, queryEntries(dbCache, ops[o].dbPath))
    /\ UNCHANGED << storeVars, providerVars, storeChanges >>
    /\ OffProvider

\* The key lookup answers: getValue returns null or reads the content file.
BlobIdAnswers(o) ==
    /\ ops[o].pc = "get"
    /\ IF getBlobId(dbCache, ops[o].dbPath, ops[o].key) = NoValue
       THEN Return(o, NoValue)
       ELSE ops' = [ops EXCEPT ![o].pc = "read",
                               ![o].blobId = getBlobId(dbCache, ops[o].dbPath, ops[o].key)]
    /\ UNCHANGED << storeVars, providerVars, storeChanges >>
    /\ OffProvider

\* fs.readFile(blobPath) settles and getValue returns.
ReadSettles(o) ==
    /\ ops[o].pc = "read"
    /\ Return(o, ReadBlob(ops[o].p, ops[o].n, ops[o].blobId))
    /\ UNCHANGED << storeVars, providerVars, storeChanges >>
    /\ OffProvider

\* The extension is deactivated: dispose() runs, whatever calls are in
\* flight, and no command starts a call any more.
Deactivate ==
    /\ \E o \in OpIds : ~ops[o].disposed
    /\ dispose
    /\ ops' = [o \in OpIds |-> [ops[o] EXCEPT !.disposed = TRUE]]
    /\ UNCHANGED << quickPick, timers, passes, tree, calc, documents, discovery >>

\* One project with one namespace of two entries and a new provider.
ConcurrentInit ==
    /\ miniflareDir = [p \in Projects |-> p = "P1"]
    /\ dbFiles = [d \in Paths |-> IF d = << "P1", "d1" >> THEN SearchDb ELSE NoFile]
    /\ blobs = [d \in Projects \X Namespaces |->
                    IF d = << "P1", "N1" >> THEN SearchBlobs ELSE NoDir]
    /\ NewProvider
    /\ NewSearch(FALSE)
    /\ calc = NoCall
    /\ documents = NewDocuments
    /\ discovery = NewDiscovery
    /\ ops = NoCalls

\* The runtime's step leaves the calls in flight where they are.
OffRuntime ==
    UNCHANGED << quickPick, timers, passes, tree, calc, documents, discovery, ops >>

ConcurrentNext ==
    \/ \E o \in OpIds : Call(o, "getKVData", "P1", "N1", 0)
    \/ \E o \in OpIds : Call(o, "getValue", "P1", "N1", 1)
    \/ \E o \in OpIds : AccessSettles(o)
    \/ \E o \in OpIds : ReturnCached(o)
    \/ \E o \in OpIds, closeThrows \in BOOLEAN : Invalidation(o, closeThrows)
    \/ \E o \in OpIds : DirSettles(o)
    \/ \E o \in OpIds : BlobsDirSettles(o)
    \/ \E o \in OpIds : ReaddirSettles(o)
    \/ \E o \in OpIds : CountAnswers(o)
    \/ \E o \in OpIds : SampleAnswers(o)
    \/ \E o \in OpIds : BlobSettles(o)
    \/ \E o \in OpIds : Query(o)
    \/ \E o \in OpIds : EntriesAnswer(o)
    \/ \E o \in OpIds : BlobIdAnswers(o)
    \/ \E o \in OpIds : ReadSettles(o)
    \/ RuntimeDeletesDb("P1", "d1") /\ OffRuntime
    \/ RuntimeWritesDb("P1", "d1", SearchDb) /\ OffRuntime

\* The provider's calls interleaved at their awaits, and the runtime.
ConcurrentSpec == ConcurrentInit /\ [][ConcurrentNext]_vars

ShutdownNext ==
    \/ ConcurrentNext
    \/ Deactivate

\* The provider's calls, the runtime, and the deactivation of the extension
\* while calls are suspended.
ShutdownSpec == ConcurrentInit /\ [][ShutdownNext]_vars

\* ------------------------------------------------------- text functions
\* The characters of the texts that the text functions are applied to.
Chars == {"a", "b", "X"}
TextsUpTo(S, n) == UNION { [1 .. k -> S] : k \in 0 .. n }
Texts == TextsUpTo(Chars, MaxTextLen)
Searches == TextsUpTo(Chars \cup {"x"}, MaxSearchLen)

\* The store before the runtime wrote anything.
NoStore ==
    /\ miniflareDir = [p \in Projects |-> FALSE]
    /\ dbFiles = [d \in Paths |-> NoFile]
    /\ blobs = [d \in Projects \X Namespaces |-> NoDir]

\* The values a preview is made of: a match with up to MaxPad characters
\* before it (a backslash followed by n at place esc of them, if esc > 0)
\* and up to MaxPad characters after it.
Pad(len, esc) ==
    [k \in 1 .. len |-> IF esc > 0 /\ k = esc THEN "\\"
                        ELSE IF esc > 0 /\ k = esc + 1 THEN "n" ELSE "X"]
Matched ==
    { << "a" >>, << "A", "b" >>, << "\\", "n", "a" >>, << "a", "\\", "n" >>,
      << "a", "X", "a" >> }
PreviewValues ==
    { Pad(left, esc) \o m \o Pad(right, 0) :
        left \in 0 .. MaxPad, esc \in 0 .. 2, right \in 0 .. MaxPad, m \in Matched }
PreviewQueries == { << "a" >>, << "A" >>, << "a", "b" >> }

MatchInit ==
    /\ NoStore
    /\ NewProvider
    /\ NewSearch(FALSE)
    /\ documents = NewDocuments
    /\ discovery = NewDiscovery
    /\ ops = NoCalls
    /\ \/ calc \in [op : {"none"}, text : Texts, search : Searches, out : {FALSE}]
       \/ calc \in [op : {"none"}, text : PreviewValues, search : PreviewQueries,
                     out : {FALSE}]

ExtensionIdle ==
    UNCHANGED << storeVars, providerVars, last, storeChanges, searchVars, documents,
                 discovery, ops >>

\* fuzzyMatch(text, search)
CallFuzzyMatch ==
    /\ calc.op = "none"
    /\ calc' = [calc EXCEPT !.op = "fuzzyMatch", !.out = fuzzyMatch(calc.text, calc.search)]
    /\ ExtensionIdle

\* fuzzyMatch(entry.key.toLowerCase(), value.toLowerCase())
CallKeyMatch ==
    /\ calc.op = "none"
    /\ calc' = [calc EXCEPT !.op = "keyMatch", !.out = keyMatch(calc.text, calc.search)]
    /\ ExtensionIdle

\* valuePreview of the live loop, computed when content is not empty and
\* includes the (non-empty) value, case apart.
CallPreview ==
    /\ calc.op = "none"
    /\ calc.search # << >>
    /\ calc.text # << >>
    /\ includes(toLowerCase(calc.text), toLowerCase(calc.search))
    /\ calc' = [calc EXCEPT !.op = "preview", !.out = valuePreview(calc.text, calc.search)]
    /\ ExtensionIdle

MatchNext ==
    \/ CallFuzzyMatch
    \/ CallKeyMatch
    \/ CallPreview

MatchSpec == MatchInit /\ [][MatchNext]_vars

\* ------------------------------------------------------------------ properties
\* The last operation was a provider call that ran resolve.
Resolved == last.op \in {"getKVData", "getValue"}

\* The match rule stated on the store alone: candidate file f of project p
\* has entries, yields at least one of its first SampleLimit content-reference
\* ids, and each of them is a file in the blob directory of namespace n.
Sampled(dbPath) ==
    LET rows == dbFiles[dbPath].rows
    IN { rows[i].blobId : i \in { j \in 1 .. Len(rows) : j <= SampleLimit } }

Matches(p, n, f) ==
    /\ ~StoreErrs(<< p, f >>, "count")
    /\ ~StoreErrs(<< p, f >>, "sample")
    /\ Sampled(<< p, f >>) # {}
    /\ \A b \in Sampled(<< p, f >>) : BlobExists(p, n, b)

UniqueMatch(p, n, f) ==
    /\ f \in DbFileNames(p)
    /\ Matches(p, n, f)
    /\ \A g \in DbFileNames(p) \ {f} : ~Matches(p, n, g)

\* C1 (as claimed): while the store stays as it was at construction, a
\* resolve for a project and namespace with exactly one matching candidate
\* returns that candidate's path, whatever provider calls came before,
\* calls for other projects included.
C1_ResolutionDeterminism ==
    (Resolved /\ storeChanges = 0) =>
        \A f \in DbFileNames(last.p) :
            UniqueMatch(last.p, last.n, f) => last.res.found = << last.p, f >>

\* C2: when a resolve runs for a namespace id whose cached path exists on
\* disk, it returns the cached path after the existence check alone: the
\* directories are not checked, nothing is enumerated, no count or sample
\* query runs, no blob is tested, and the mapping stays as it was.
C2_CacheHitWithoutReprobing ==
    [][\A n \in Namespaces :
          (Resolved' /\ last'.n = n /\ namespaceDbMapping[n] # NoPath
             /\ DbFileExists(namespaceDbMapping[n]))
          => /\ last'.res.found = namespaceDbMapping[n]
             /\ ~last'.res.checkedDir
             /\ ~last'.res.checkedBlobsDir
             /\ ~last'.res.enumerated
             /\ last'.res.probes = << >>
             /\ namespaceDbMapping' = namespaceDbMapping]_vars

C2_Witness ==
    /\ Resolved
    /\ last.res.hit
    /\ last.res.found # NoPath
    /\ last.res.found = last.res.cachedPath
    /\ last.res.probes = << >>

\* C3: when a resolve runs for a namespace id whose cached path is no
\* longer on disk, it does not return that path: it runs the directory
\* checks and the probing again, and returns a path only of a candidate of
\* the asked project that matches now, not-found when none matches.
C3_CacheInvalidation ==
    [][\A n \in Namespaces :
          (Resolved' /\ last'.n = n /\ namespaceDbMapping[n] # NoPath
             /\ ~DbFileExists(namespaceDbMapping[n]))
          => /\ last'.res.found # namespaceDbMapping[n]
             /\ ~last'.res.hit
             /\ last'.res.checkedDir
             /\ (miniflareDir[last'.p] /\ blobs[<< last'.p, n >>].exists) => last'.res.enumerated
             /\ (last'.res.found = NoPath) <=> (\A f \in DbFileNames(last'.p) : ~Matches(last'.p, n, f))
             /\ last'.res.found # NoPath =>
                   /\ last'.res.found[1] = last'.p
                   /\ Matches(last'.p, n, last'.res.found[2])]_vars

C3_Witness ==
    /\ Resolved
    /\ last.res.invalidated
    /\ ~DbFileExists(last.res.cachedPath)
    /\ last.res.enumerated
    /\ last.res.probes # << >>
    /\ last.res.found = NoPath

\* C4: when a resolve finds that the cached path of a namespace id is gone,
\* then after it the mapping does not hold that path for the id, the handle
\* cache holds no handle for that path, and the handle it held was closed
\* (close() was called on it; a close() that throws is swallowed).
C4_InvalidationEvictsHandle ==
    [][\A n \in Namespaces :
          (Resolved' /\ last'.n = n /\ namespaceDbMapping[n] # NoPath
             /\ ~DbFileExists(namespaceDbMapping[n]))
          => /\ last'.res.invalidated
             /\ namespaceDbMapping'[n] # namespaceDbMapping[n]
             /\ dbCache'[namespaceDbMapping[n]] = NoHandle
             /\ dbCache[namespaceDbMapping[n]] = "open" =>
                   \/ last'.res.closed = namespaceDbMapping[n]
                   \/ last'.res.closeFailed = namespaceDbMapping[n]
             /\ last'.res.closeFailed = NoPath => leakedHandles' = leakedHandles]_vars

C4_Witness ==
    /\ Resolved
    /\ last.res.invalidated
    /\ last.res.closed = last.res.cachedPath
    /\ dbCache[last.res.cachedPath] = NoHandle
    /\ namespaceDbMapping[last.n] # last.res.cachedPath

\* C5: every candidate that a probing pass examined is the one resolve
\* accepted if and only if it has a non-zero entry count, at least one and
\* at most SampleLimit sampled content-reference ids, and every sampled id
\* is a file in the namespace's blob directory; a candidate with a zero
\* count or without samples is not accepted.
C5_MatchRule ==
    (Resolved /\ last.res.enumerated) =>
        \A i \in 1 .. Len(last.res.probes) :
            LET pr == last.res.probes[i]
            IN /\ (last.res.found = pr.db) <=> Matches(last.p, last.n, pr.db[2])
               /\ Len(pr.samples) <= SampleLimit
               /\ (pr.count = 0 \/ pr.samples = << >>) => last.res.found # pr.db
               /\ (last.res.found = pr.db) =>
                     \A j \in 1 .. Len(pr.samples) : BlobExists(last.p, last.n, pr.samples[j])

C5_Witness ==
    /\ Resolved
    /\ last.res.enumerated
    /\ \E i \in 1 .. Len(last.res.probes) :
          /\ last.res.probes[i].sampled
          /\ last.res.probes[i].samples = << >>
          /\ last.res.found # last.res.probes[i].db
    /\ \E i \in 1 .. Len(last.res.probes) :
          /\ Len(dbFiles[last.res.probes[i].db].rows) > SampleLimit
          /\ last.res.found = last.res.probes[i].db

\* C6: in a probing pass, a candidate whose first sampled id is not a file
\* in the namespace's blob directory is not the one returned, whatever its
\* later samples, and only that first id was tested for it; in general the
\* ids tested for a candidate are a prefix of its samples that ends at the
\* first miss.
C6_EarlyBreak ==
    (Resolved /\ last.res.enumerated) =>
        \A i \in 1 .. Len(last.res.probes) :
            LET pr == last.res.probes[i]
            IN /\ (pr.samples # << >> /\ ~BlobExists(last.p, last.n, pr.samples[1])) =>
                     /\ last.res.found # pr.db
                     /\ pr.tested = << pr.samples[1] >>
               /\ Len(pr.tested) <= Len(pr.samples)
               /\ \A j \in 1 .. Len(pr.tested) :
                     /\ pr.tested[j] = pr.samples[j]
                     /\ ~BlobExists(last.p, last.n, pr.tested[j]) => j = Len(pr.tested)

C6_Witness ==
    /\ Resolved
    /\ last.res.enumerated
    /\ \E i \in 1 .. Len(last.res.probes) :
          LET pr == last.res.probes[i]
          IN /\ Len(pr.samples) >= 2
             /\ ~BlobExists(last.p, last.n, pr.samples[1])
             /\ BlobExists(last.p, last.n, pr.samples[2])
             /\ pr.tested = << pr.samples[1] >>
             /\ last.res.found # pr.db

\* C7: in a probing pass over the candidates of a project of which exactly
\* one matches the namespace, resolve returns that one, whatever the
\* enumeration order and whatever the candidates before it are (empty,
\* missing a sample, failing their count or sample query).
C7_UniqueMatchAnyPosition ==
    (Resolved /\ last.res.enumerated) =>
        \A f \in DbFileNames(last.p) :
            UniqueMatch(last.p, last.n, f) => last.res.found = << last.p, f >>

C7_Witness ==
    /\ Resolved
    /\ last.res.enumerated
    /\ Len(last.res.order) >= 2
    /\ UniqueMatch(last.p, last.n, last.res.order[2])
    /\ last.res.found = << last.p, last.res.order[2] >>
    /\ last.res.probes[1].count = 0

\* C8: in a probing pass, when some candidate matches, resolve returns the
\* first matching candidate of the enumeration order, the mapping then holds
\* it for the namespace id, and exactly the candidates up to it were probed.
C8_FirstMatchWins ==
    (Resolved /\ last.res.enumerated) =>
        \A i \in 1 .. Len(last.res.order) :
            (/\ Matches(last.p, last.n, last.res.order[i])
             /\ \A j \in 1 .. (i - 1) : ~Matches(last.p, last.n, last.res.order[j]))
            => /\ last.res.found = << last.p, last.res.order[i] >>
               /\ namespaceDbMapping[last.n] = << last.p, last.res.order[i] >>
               /\ Len(last.res.probes) = i
               /\ \A j \in 1 .. i : last.res.probes[j].db = << last.p, last.res.order[j] >>

C8_Witness ==
    /\ Resolved
    /\ last.res.enumerated
    /\ Len(last.res.order) = 2
    /\ Matches(last.p, last.n, last.res.order[1])
    /\ Matches(last.p, last.n, last.res.order[2])
    /\ last.res.found = << last.p, last.res.order[1] >>
    /\ Len(last.res.probes) = 1

\* C9: a resolve that reports not-found leaves no mapping entry for the
\* namespace id, and a resolve that starts without a mapping entry for the
\* id runs the directory checks and the probing (it is not answered from
\* the mapping).
C9_NothingCachedOnFailure ==
    [][\A n \in Namespaces :
          (Resolved' /\ last'.n = n)
          => /\ last'.res.found = NoPath => namespaceDbMapping'[n] = NoPath
             /\ namespaceDbMapping[n] = NoPath =>
                   /\ ~last'.res.hit
                   /\ last'.res.checkedDir
                   /\ miniflareDir[last'.p] => last'.res.checkedBlobsDir
                   /\ (miniflareDir[last'.p] /\ blobs[<< last'.p, n >>].exists) =>
                         /\ last'.res.enumerated
                         /\ last'.res.order \in Orders(SqliteFiles(last'.p))]_vars

C9_Witness ==
    /\ Resolved
    /\ last.res.found = NoPath
    /\ last.res.enumerated
    /\ last.res.probes # << >>
    /\ last.res.probes[Len(last.res.probes)].sampled
    /\ namespaceDbMapping[last.n] = NoPath

\* The namespace of the last call has no blob directory under the asked
\* project's storage root.
NoBlobDir == Resolved /\ ~blobs[<< last.p, last.n >>].exists

\* The resolve of the last call started with a mapping entry for the
\* namespace id whose file is on disk.
CachedAtEntry == last.res.cachedPath # NoPath /\ DbFileExists(last.res.cachedPath)

\* C10 (as claimed): in every state in which the namespace's blob directory
\* does not exist, also after an earlier successful resolution of that
\* namespace, getKVData returns an empty entry list and getValue returns
\* not-found.  Stated for the calls whose mapping entry, if there is one,
\* is a database of the asked project, so that a violation does not rest on
\* an entry cached for another project (C1).
C10_NoNamespaceDataYieldsEmpty ==
    (NoBlobDir /\ (last.res.cachedPath = NoPath \/ last.res.cachedPath[1] = last.p)) =>
        /\ last.op = "getKVData" => last.entries = << >>
        /\ last.op = "getValue" => last.value = NoValue

\* C10 (amended): when the namespace's blob directory does not exist,
\* getValue returns not-found; and unless the resolve started with a mapping
\* entry whose file is on disk, resolve reports not-found without
\* enumerating candidates, leaves the mapping without an entry, and
\* getKVData returns an empty entry list.
C10_NoNamespaceDataAmended ==
    NoBlobDir =>
        /\ last.op = "getValue" => last.value = NoValue
        /\ ~CachedAtEntry =>
              /\ last.res.found = NoPath
              /\ ~last.res.enumerated
              /\ last.res.probes = << >>
              /\ namespaceDbMapping[last.n] = NoPath
              /\ last.entries = << >>

C10_Witness ==
    /\ NoBlobDir
    /\ last.op = "getKVData"
    /\ ~CachedAtEntry
    /\ last.res.invalidated
    /\ \E f \in SqliteFiles(last.p) : Len(dbFiles[<< last.p, f >>].rows) > 0
    /\ last.res.checkedBlobsDir
    /\ last.entries = << >>

\* The rows of the database the last call resolved to that hold its key.
KeyRows ==
    LET rows == dbFiles[last.res.found].rows
    IN { rows[i] : i \in { j \in 1 .. Len(rows) : rows[j].key = last.key } }

\* C11: when getValue resolves the namespace and the store answers the key
\* lookup: if the resolved database has an entry with exactly the asked key
\* and its content file exists under the asked project's namespace
\* directory, getValue returns the text of that file; if no entry has
\* exactly that key, it returns not-found.
C11_GetValueEndToEnd ==
    (last.op = "getValue" /\ last.res.found # NoPath /\ ~StoreErrs(last.res.found, "get")) =>
        /\ KeyRows = {} => last.value = NoValue
        /\ \A r \in KeyRows :
              BlobExists(last.p, last.n, r.blobId) => last.value = BlobText(last.p, last.n, r.blobId)

C11_Witness ==
    /\ last.op = "getValue"
    /\ last.res.found # NoPath
    /\ Len(dbFiles[last.res.found].rows) >= 2
    /\ dbFiles[last.res.found].rows[1].key # last.key
    /\ \E r \in KeyRows :
          /\ r.blobId # dbFiles[last.res.found].rows[1].blobId
          /\ BlobExists(last.p, last.n, dbFiles[last.res.found].rows[1].blobId)
          /\ last.value = BlobText(last.p, last.n, r.blobId)

\* C12: when the store reports an error on the entries query of the
\* resolved database, getKVData returns an empty entry list; when it reports
\* an error on the key lookup, getValue returns not-found; a candidate whose
\* count or sample query fails is not accepted.  Each call returns.
C12_QueryFailureDegrades ==
    Resolved =>
        /\ (last.op = "getKVData" /\ last.res.found # NoPath
               /\ StoreErrs(last.res.found, "entries")) => last.entries = << >>
        /\ (last.op = "getValue" /\ last.res.found # NoPath
               /\ StoreErrs(last.res.found, "get")) => last.value = NoValue
        /\ \A i \in 1 .. Len(last.res.probes) :
              (StoreErrs(last.res.probes[i].db, "count") \/ StoreErrs(last.res.probes[i].db, "sample"))
              => ~last.res.probes[i].accepted

C12_Witness ==
    /\ last.op = "getKVData"
    /\ last.res.found # NoPath
    /\ ~last.res.hit
    /\ StoreErrs(last.res.found, "entries")
    /\ dbFiles[last.res.found].rows # << >>
    /\ last.entries = << >>

\* The last call was a getValue that resolved, found an entry for the key,
\* and the content file of that entry is absent.
ContentFileMissing ==
    /\ last.op = "getValue"
    /\ last.res.found # NoPath
    /\ ~StoreErrs(last.res.found, "get")
    /\ KeyRows # {}
    /\ \A r \in KeyRows : ~BlobExists(last.p, last.n, r.blobId)

\* C13 (as claimed): a getValue whose entry's content file is absent
\* returns not-found and leaves the resolution cache and the handle cache
\* as they were before the call.
C13_ContentFileMissingLeavesCaches ==
    [][ContentFileMissing' =>
          /\ last'.value = NoValue
          /\ namespaceDbMapping' = namespaceDbMapping
          /\ dbCache' = dbCache]_vars

\* C13 (amended): a getValue whose entry's content file is absent returns
\* not-found; nothing is invalidated: the namespace stays mapped to the
\* resolved database, its handle stays open, every handle open before
\* stays open unless the resolve step invalidated it; and a call answered
\* from the resolution cache leaves both caches as they were.
C13_ContentFileMissingAmended ==
    [][ContentFileMissing' =>
          /\ last'.value = NoValue
          /\ namespaceDbMapping'[last'.n] = last'.res.found
          /\ dbCache'[last'.res.found] = "open"
          /\ \A d \in Paths :
                (dbCache[d] = "open" /\ d # last'.res.closed /\ ~last'.res.invalidated)
                => dbCache'[d] = "open"
          /\ last'.res.hit =>
                (namespaceDbMapping' = namespaceDbMapping /\ dbCache' = dbCache)]_vars

C13_Witness ==
    /\ ContentFileMissing
    /\ last.res.hit
    /\ last.value = NoValue
    /\ namespaceDbMapping[last.n] = last.res.found
    /\ dbCache[last.res.found] = "open"

\* A sequence of rows is in strictly ascending key order.
Ascending(rows) == \A i, j \in 1 .. Len(rows) : i < j => rows[i].key < rows[j].key

\* C14: the entries getKVData returns are in strictly ascending key order
\* and each is an entry of the resolved database; when the store answers
\* the entries query they are all its entries, each exactly once, whatever
\* the order the database holds them in.
C14_KeyOrdering ==
    (last.op = "getKVData" /\ last.res.found # NoPath) =>
        LET rows == dbFiles[last.res.found].rows
        IN /\ Ascending(last.entries)
           /\ \A i \in 1 .. Len(last.entries) : \E j \in 1 .. Len(rows) : last.entries[i] = rows[j]
           /\ ~StoreErrs(last.res.found, "entries") =>
                 /\ Len(last.entries) = Len(rows)
                 /\ \A j \in 1 .. Len(rows) : \E i \in 1 .. Len(last.entries) : last.entries[i] = rows[j]

C14_Witness ==
    /\ last.op = "getKVData"
    /\ last.res.found # NoPath
    /\ Len(last.entries) = 4
    /\ ~Ascending(dbFiles[last.res.found].rows)
    /\ Ascending(last.entries)

\* C15: the handle cache holds one slot per database path, and a provider
\* call constructs a handle for a path exactly when it accesses the path
\* and the handle cache holds none for it: a probing pass constructs at
\* most one handle for its candidate, none when one was cached, and the
\* count query, the sample query and the call's own query all use the
\* handle that is then cached, which stays cached and open.
C15_OneHandlePerPath ==
    [][Resolved' =>
          /\ dbCache' \in [Paths -> {NoHandle, "open"}]
          /\ \A i \in 1 .. Len(last'.res.probes) :
                /\ last'.res.probes[i].opens = (IF dbCache[last'.res.probes[i].db] = NoHandle
                                                 THEN 1 ELSE 0)
                /\ dbCache'[last'.res.probes[i].db] = "open"
          /\ last'.opens = 0
          /\ last'.res.found # NoPath => dbCache'[last'.res.found] = "open"
          /\ \A d \in Paths :
                (dbCache[d] = NoHandle /\ dbCache'[d] = "open") =>
                    \E i \in 1 .. Len(last'.res.probes) : last'.res.probes[i].db = d]_vars

C15_Witness ==
    /\ Resolved
    /\ \E i, j \in 1 .. Len(last.res.probes) :
          /\ last.res.probes[i].opens = 1
          /\ last.res.probes[i].sampled
          /\ last.res.probes[j].opens = 0
          /\ last.res.probes[j].sampled
    /\ last.res.found # NoPath

\* C16: a step takes an open handle out of the handle cache only if it is
\* dispose, or a resolve that found the cached path of its namespace id
\* missing on disk, and then the handle is the one of that path; getKVData,
\* getValue and probing close no handle: every other handle that was open
\* stays in the cache, open, and so does every handle they opened.
C16_ClosedOnlyByInvalidationOrDispose ==
    [][/\ \A d \in Paths :
            (dbCache[d] = "open" /\ dbCache'[d] # "open") =>
                \/ last'.op = "dispose"
                \/ /\ Resolved'
                   /\ last'.res.invalidated
                   /\ namespaceDbMapping[last'.n] = d
                   /\ ~DbFileExists(d)
       /\ (Resolved' /\ (last'.res.closed # NoPath \/ last'.res.closeFailed # NoPath)) =>
             /\ last'.res.invalidated
             /\ last'.res.closed \in {NoPath, namespaceDbMapping[last'.n]}
             /\ last'.res.closeFailed \in {NoPath, namespaceDbMapping[last'.n]}
             /\ dbCache[namespaceDbMapping[last'.n]] = "open"
       /\ Resolved' =>
             /\ \A i \in 1 .. Len(last'.res.probes) : dbCache'[last'.res.probes[i].db] = "open"
             /\ last'.res.found # NoPath => dbCache'[last'.res.found] = "open"
       /\ last'.op = "runtime" => dbCache' = dbCache]_vars

C16_Witness ==
    /\ last.op = "getValue"
    /\ last.res.invalidated
    /\ last.res.closed = last.res.cachedPath
    /\ last.res.enumerated
    /\ Len(last.res.probes) = 1
    /\ \E d \in Paths :
          /\ d \notin {last.res.cachedPath, last.res.probes[1].db}
          /\ dbCache[d] = "open"

\* C17: a dispose returns without raising, also when close() throws for
\* some handle; after it the handle cache and the resolution cache are
\* empty and every handle that was cached is closed, the ones whose close()
\* threw excepted; it changes nothing of the store; and a dispose with both
\* caches empty (a second dispose, or one with no handle open) changes
\* nothing.
C17_DisposeReleasesAll ==
    [][last'.op = "dispose" =>
          /\ ~last'.threw
          /\ \A d \in Paths : dbCache'[d] = NoHandle
          /\ \A n \in Namespaces : namespaceDbMapping'[n] = NoPath
          /\ leakedHandles \subseteq leakedHandles'
          /\ leakedHandles' \ leakedHandles \subseteq CachedHandles
          /\ Cardinality(leakedHandles' \ leakedHandles) <= storeChanges' - storeChanges
          /\ (CachedHandles = {} /\ \A n \in Namespaces : namespaceDbMapping[n] = NoPath) =>
                (dbCache' = dbCache /\ namespaceDbMapping' = namespaceDbMapping
                   /\ leakedHandles' = leakedHandles)
          /\ UNCHANGED storeVars]_vars

\* A dispose in which close() threw for one handle: no database file was
\* ever deleted, so no resolve has invalidated (and closed) anything, and
\* the one environment event of the run is that close().
C17_Witness ==
    /\ last.op = "dispose"
    /\ storeChanges = 1
    /\ Cardinality(leakedHandles) = 1
    /\ \A p \in Projects : miniflareDir[p] /\ DbFileExists(<< p, "d1" >>)
    /\ \A d \in Paths : dbCache[d] = NoHandle
    /\ \A n \in Namespaces : namespaceDbMapping[n] = NoPath

\* C18: a step that changes the store (an entry, a database file, a
\* candidate directory, a blob directory or a content file) is a step of
\* the external runtime: getKVData, getValue (with their resolve) and
\* dispose leave the store as it is.
C18_ReadOnly ==
    [][/\ last'.op \in {"getKVData", "getValue", "dispose"} =>
             (miniflareDir' = miniflareDir /\ dbFiles' = dbFiles /\ blobs' = blobs)
       /\ (miniflareDir' # miniflareDir \/ dbFiles' # dbFiles \/ blobs' # blobs) =>
             last'.op = "runtime"]_vars

C18_Witness ==
    /\ last.op = "getValue"
    /\ last.res.found # NoPath
    /\ last.res.probes # << >>
    /\ KeyRows # {}
    /\ \E r \in KeyRows : ~BlobExists(last.p, last.n, r.blobId)
    /\ blobs[<< last.p, last.n >>].exists
    /\ last.value = NoValue

\* Search pass id starts in this step: its timer callback runs.
PassStarts(id) == passes[id].pc = "idle" /\ passes'[id].pc # "idle"

\* C20: debounce.  Each input event leaves exactly one timer pending, the
\* new one with the whole window ahead of it, so at most one timer is
\* pending at any time; a search pass starts only for the latest input
\* event and its value, when the window has passed since that event; and
\* while the quick pick stays open and no further input arrives, the pass
\* of the latest input event eventually starts.
C20_Debounce ==
    /\ [](Cardinality(timers.pending) <= 1)
    /\ [][ /\ quickPick'.inputs # quickPick.inputs =>
                timers'.pending = {Timer(quickPick'.inputs, DebounceMs)}
           /\ \A id \in PassIds : PassStarts(id) =>
                /\ id = quickPick.inputs
                /\ passes'[id].value = CurrentValue
                /\ timers.sinceInput >= DebounceMs
                /\ quickPick.open ]_vars
    /\ \A id \in PassIds :
          (quickPick.inputs = id)
              ~> (passes[id].pc # "idle" \/ quickPick.inputs > id \/ ~quickPick.open)

\* The first input was superseded before its timer fired, and the pass of
\* the second input has started.
C20_Witness ==
    /\ quickPick.inputs = 2
    /\ passes[1].pc = "idle"
    /\ passes[2].pc # "idle"
    /\ passes[2].value # << >>

\* No timer is pending and no search pass is suspended.
SearchQuiet ==
    /\ timers.pending = {}
    /\ \A id \in PassIds : passes[id].pc \in {"idle", "done"}

\* C19: superseded search results are discarded.  A step that assigns the
\* quick pick items, or writes the tree filter (searchTerm, searchResults),
\* is a step of the pass of the latest input event; and once every pass has
\* finished, the items and the tree filter are those that the pass of the
\* latest input event wrote.
C19_SupersededDiscarded ==
    /\ [][ /\ (quickPick'.items # quickPick.items \/ quickPick'.itemsOf # quickPick.itemsOf)
               => quickPick'.itemsOf = quickPick'.inputs
           /\ (\/ tree'.searchTerm # tree.searchTerm
               \/ tree'.searchResults # tree.searchResults
               \/ tree'.filterOf # tree.filterOf)
               => tree'.filterOf = quickPick'.inputs ]_vars
    /\ [](SearchQuiet /\ quickPick.open /\ quickPick.inputs > 0
             => quickPick.itemsOf = quickPick.inputs /\ tree.filterOf = quickPick.inputs)

\* search is a subsequence of text: its characters are at ascending
\* positions of text.
IsSubsequence(search, text) ==
    \E at \in [1 .. Len(search) -> 1 .. Len(text)] :
        /\ \A j \in 1 .. Len(search) : text[at[j]] = search[j]
        /\ \A j, k \in 1 .. Len(search) : j < k => at[j] < at[k]

\* C21: fuzzyMatch(text, search) is true exactly when search is a
\* subsequence of text, so the empty search matches every text; the callers'
\* key test is that of the lower-cased key against the lower-cased query;
\* "ab" matches "xaxbx" and matches neither "ba" nor "xx".
C21_FuzzyIsSubsequence ==
    /\ calc.op = "fuzzyMatch" =>
          /\ calc.out = IsSubsequence(calc.search, calc.text)
          /\ calc.search = << >> => calc.out
    /\ calc.op = "keyMatch" =>
          calc.out = IsSubsequence(toLowerCase(calc.search), toLowerCase(calc.text))
    /\ calc.op = "keyMatch" /\ calc.search = << "a", "b" >> =>
          /\ calc.text = << "X", "a", "X", "b", "X" >> => calc.out
          /\ calc.text \in { << "b", "a" >>, << "X", "X" >> } => ~calc.out

\* fuzzyMatch found "ab" in "XaXbX": a match that is not contiguous.
C21_Witness ==
    /\ calc.op = "fuzzyMatch"
    /\ calc.text = << "X", "a", "X", "b", "X" >>
    /\ calc.search = << "a", "b" >>
    /\ calc.out

\* The least index (from 0) at which query is in value, case apart.
FirstMatch(value, query) ==
    CHOOSE i \in 0 .. Len(value) - Len(query) :
        /\ \A j \in 1 .. Len(query) : Lower(value[i + j]) = Lower(query[j])
        /\ \A h \in 0 .. i - 1 : \E j \in 1 .. Len(query) : Lower(value[h + j]) # Lower(query[j])

\* The places of text where a backslash is followed by n.
EscapedNewlines(text) ==
    { k \in 1 .. Len(text) - 1 : text[k] = "\\" /\ text[k + 1] = "n" }

\* text with a space for each backslash that n follows, and without that n.
Unescaped(text) ==
    LET kept == SelectSeq([k \in 1 .. Len(text) |-> k],
                          LAMBDA k : (k - 1) \notin EscapedNewlines(text))
    IN [j \in 1 .. Len(kept) |->
            IF kept[j] \in EscapedNewlines(text) THEN " " ELSE text[kept[j]]]

\* The snippet of value around the match of query at index i.
SnippetStart(i) == IF i > PreviewContext THEN i - PreviewContext ELSE 0
SnippetEnd(value, query, i) ==
    IF i + Len(query) + PreviewContext < Len(value)
    THEN i + Len(query) + PreviewContext ELSE Len(value)

\* C26: the preview of a value that contains the query, case apart, at
\* first match index i is the value from max(0, i - 20) to
\* min(length, i + |query| + 20) with each backslash-n replaced by a space,
\* after an ellipsis exactly when the snippet starts after position 0 and
\* before an ellipsis exactly when it ends before the value's end.
C26_ValuePreview ==
    calc.op = "preview" =>
        calc.out =
            (IF SnippetStart(FirstMatch(calc.text, calc.search)) > 0
             THEN << ".", ".", "." >> ELSE << >>)
            \o Unescaped(SubSeq(calc.text,
                                SnippetStart(FirstMatch(calc.text, calc.search)) + 1,
                                SnippetEnd(calc.text, calc.search,
                                           FirstMatch(calc.text, calc.search))))
            \o (IF SnippetEnd(calc.text, calc.search,
                              FirstMatch(calc.text, calc.search)) < Len(calc.text)
                THEN << ".", ".", "." >> ELSE << >>)

\* A preview cut at both ends, with a backslash-n inside the snippet.
C26_Witness ==
    /\ calc.op = "preview"
    /\ Len(calc.text) > 2 * PreviewContext + Len(calc.search)
    /\ SubSeq(calc.out, 1, 3) = << ".", ".", "." >>
    /\ SubSeq(calc.out, Len(calc.out) - 2, Len(calc.out)) = << ".", ".", "." >>
    /\ \E k \in 1 .. Len(calc.out) : calc.out[k] = " "

\* search is in text as a run of adjacent characters.
Contains(text, search) ==
    \E off \in 0 .. Len(text) - Len(search) :
        SubSeq(text, off + 1, off + Len(search)) = search

\* The entries that the store holds for a (project, namespace) pair: the
\* rows of the project's database, each with the text of its content file.
StoreRows(c) == dbFiles[<< c[1], "d1" >>].rows

\* The keys of the pair's entries that query matches: by key as a
\* subsequence, or by value as a substring, case apart.
MatchingKeys(c, query) ==
    { StoreRows(c)[i].key : i \in
        { j \in 1 .. Len(StoreRows(c)) :
            \/ IsSubsequence(toLowerCase(query), toLowerCase(KeyText(StoreRows(c)[j].key)))
            \/ /\ BlobExists(c[1], c[2], StoreRows(c)[j].blobId)
               /\ Contains(toLowerCase(ValueText(StoreRows(c)[j].blobId)),
                           toLowerCase(query)) } }

\* Pass id, for a non-empty value, has run from start to end with no other
\* pass running meanwhile, and nothing has written the quick pick items or
\* the tree filter since.
CompletedAlone(id) ==
    /\ passes[id].pc = "done"
    /\ passes[id].value # << >>
    /\ ~passes[id].overlapped
    /\ quickPick.itemsOf = id
    /\ tree.filterOf = id

EntryKey(id) == passes[id].entries[passes[id].e].key

\* C23: in every search pass, of the live search and of performSearch, the
\* value of an entry is fetched through getValue only when the entry's key
\* did not match the query.
C23_ValueFetchedOnlyOnKeyMiss ==
    [][ \A id \in PassIds :
          LiveValue(id) \/ TreeValue(id) =>
              ~IsSubsequence(toLowerCase(passes[id].value), toLowerCase(KeyText(EntryKey(id))))
      ]_vars

\* The tree tr has no search: the term and the match sets are empty and the
\* searching context is false.
SearchCleared(tr) ==
    /\ tr.searchTerm = << >>
    /\ tr.searchResults = NoResults
    /\ ~tr.searching

\* getChildren on the tree tr shows every worker, every namespace of every
\* worker and every listed key.
ShowsAll(tr) ==
    /\ rootChildren(tr) = tr.workers
    /\ \A p \in Projects : workerChildren(tr, p) = kvNamespaces(p)
    /\ \A c \in CacheKeys : namespaceChildren(tr, c) = tr.kvEntries[c]

\* C24: an empty query clears the search.  A live-search pass whose value
\* is empty ends in the step it starts in, with no call of the provider,
\* and leaves the search cleared and the quick pick without items; and
\* performSearch with an empty term, whatever the tree's state, leaves the
\* search cleared; the tree then shows every worker, namespace and key.
C24_EmptyQueryClears ==
    /\ [][ \A id \in PassIds : PassStarts(id) /\ passes[id].value = << >> =>
              /\ passes'[id].pc = "done"
              /\ last' = last
              /\ quickPick'.items = << >>
              /\ SearchCleared(tree')
              /\ ShowsAll(tree') ]_vars
    /\ [](/\ SearchCleared(performSearch(tree, << >>, 0))
          /\ ShowsAll(performSearch(tree, << >>, 0)))

\* The first pass filtered the tree, the second, for the empty value,
\* cleared the search.
C24_Witness ==
    /\ passes[1].pc = "done"
    /\ passes[1].results # << >>
    /\ passes[2].pc = "done"
    /\ passes[2].value = << >>
    /\ tree.filterOf = 2
    /\ quickPick.itemsOf = 2

\* The search of pass id, for a non-empty term, has completed with no other
\* pass running meanwhile, and nothing has written the tree filter since.
SearchCompleted(id) ==
    /\ passes[id].pc = "done"
    /\ passes[id].value # << >>
    /\ ~passes[id].overlapped
    /\ tree.filterOf = id

\* C25: after a search for a non-empty term has completed, whatever the
\* number of matches, getChildren shows only workers and namespaces with at
\* least one matching key, and under a namespace only its matching keys.
C25_TreeFilteredWhileSearching ==
    \A id \in PassIds : SearchCompleted(id) =>
        /\ \A j \in 1 .. Len(rootChildren(tree)) :
              \E n \in Namespaces : tree.searchResults[<< rootChildren(tree)[j], n >>] # {}
        /\ \A p \in Projects : \A j \in 1 .. Len(workerChildren(tree, p)) :
              tree.searchResults[<< p, workerChildren(tree, p)[j] >>] # {}
        /\ \A c \in { k \in CacheKeys : tree.kvEntries[k] # NotListed } :
              \A j \in 1 .. Len(namespaceChildren(tree, c)) :
                  namespaceChildren(tree, c)[j].key \in tree.searchResults[c]

\* The text that the store holds for the entry of a document: the content
\* file of the entry's row (NoContent when the store has no such row or
\* file).
StoreText(uri) ==
    IF \E i \in 1 .. Len(StoreRows(uri)) :
           /\ StoreRows(uri)[i].key = uri[3]
           /\ BlobExists(uri[1], uri[2], StoreRows(uri)[i].blobId)
    THEN ValueText(StoreRows(uri)[CHOOSE i \in 1 .. Len(StoreRows(uri)) :
                                      StoreRows(uri)[i].key = uri[3]].blobId)
    ELSE NoContent

\* The keys of a listing.
KeysOf(entries) == { entries[i].key : i \in 1 .. Len(entries) }

\* A fullRefresh completes in this step.
RefreshCompletes == tree.refreshing /\ ~tree'.refreshing

\* C27: when fullRefresh completes, the worker list is the one discovery
\* gives now, the search state is cleared, and what the extension provides
\* from then on is the store's content: a key listing the tree holds has
\* the store's keys and a value the document provider holds is the store's
\* value, none being left from before the refresh.
C27_RefreshReloadsAll ==
    [][ RefreshCompletes =>
            /\ tree'.workers = findWorkers
            /\ SearchCleared(tree')
            /\ \A c \in CacheKeys :
                   tree'.kvEntries[c] # NotListed =>
                       KeysOf(tree'.kvEntries[c]) = KeysOf(StoreRows(c))
            /\ \A uri \in Uris :
                   documents'.contentCache[uri] # NoContent =>
                       documents'.contentCache[uri] = formatContent(StoreText(uri)) ]_vars

\* refresh(uri) runs in this step: the URI's change event is new, or its
\* cached content goes.
Refreshes(uri) ==
    \/ uri \in documents'.changed \ documents.changed
    \/ /\ documents.contentCache[uri] # NoContent
       /\ documents'.contentCache[uri] = NoContent

\* A call of provideTextDocumentContent(uri) returns from getValue in this
\* step.
ReturnsFetched(uri) ==
    /\ uri \in documents.pending \ documents'.pending
    /\ last'.op = "getValue"
    /\ << last'.p, last'.n, last'.key >> = uri

\* C28: refresh(uri) removes the cached content of uri and of no other
\* URI, signals a change for uri and leaves the tree (its entries and its
\* search state) as it was; and while uri has no cached content, its
\* change event is answered only by a call of provideTextDocumentContent
\* that returns what getValue gave it.
C28_RefreshEntry ==
    [][ \A uri \in Uris :
          /\ Refreshes(uri) =>
                /\ documents'.contentCache[uri] = NoContent
                /\ uri \in documents'.changed
                /\ \A other \in Uris \ {uri} :
                       documents'.contentCache[other] = documents.contentCache[other]
                /\ tree' = tree
          /\ ( /\ uri \in documents.changed \ documents'.changed
               /\ documents.contentCache[uri] = NoContent ) =>
                /\ ReturnsFetched(uri)
                /\ documents'.contentCache[uri] \in
                       { NoContent, formatContent(StoreText(uri)) } ]_vars

\* An entry was refreshed while the other entry's content stays cached, and
\* the call that answers the change is waiting for getValue.
C28_Witness ==
    \E uri \in Uris :
        /\ uri \in documents.changed
        /\ uri \in documents.pending
        /\ documents.contentCache[uri] = NoContent
        /\ \E other \in Uris \ {uri} : documents.contentCache[other] # NoContent
        /\ tree.kvEntries[<< uri[1], uri[2] >>] # NotListed

\* C29: a call of findWorkers does not fail, and it returns, in the order
\* of the configuration files, exactly the projects whose configuration
\* parsed and whose runtime-state directory existed: a project whose
\* configuration failed to parse is left out, and no other project is.
C29_DiscoveryIsolatesParseFailures ==
    discovery.found.called =>
        /\ ~discovery.found.threw
        /\ discovery.found.workers =
              SelectSeq(ProjectOrder,
                        LAMBDA p : /\ discovery.found.configs[p] = "ok"
                                   /\ discovery.found.dirs[p])
        /\ \A p \in Projects :
              /\ discovery.found.configs[p] = "ok"
              /\ discovery.found.dirs[p]
              => \E i \in 1 .. Len(discovery.found.workers) : discovery.found.workers[i] = p

\* The first project's configuration did not parse, and the call returned
\* the second project.
C29_Witness ==
    /\ discovery.found.called
    /\ discovery.found.configs["P1"] # "ok"
    /\ discovery.found.dirs["P1"]
    /\ discovery.found.configs["P2"] = "ok"
    /\ discovery.found.dirs["P2"]
    /\ discovery.found.workers = << "P2" >>
    /\ ~discovery.found.threw

\* A call is suspended in a query that it sent through the handle of dbPath.
QueryInFlight(o, dbPath) ==
    /\ ops[o].pc \in {"count", "sample", "entries", "get"}
    /\ ops[o].dbPath = dbPath

\* C30: however the calls of getKVData and getValue interleave at their
\* awaits, invalidations included, no handle in the handle cache is closed,
\* and an open handle is outside the handle cache only when the close() of
\* an invalidation threw on it: every other handle that was opened and not
\* closed is cached under its path.
C30_NoHandleLeak ==
    /\ [](\A d \in Paths : dbCache[d] \in {NoHandle, "open"})
    /\ [][ leakedHandles' # leakedHandles =>
              /\ storeChanges' = storeChanges + 1
              /\ \E o \in OpIds :
                    /\ ops[o].pc = "missing"
                    /\ ops'[o].pc = "dir"
                    /\ dbCache[ops[o].cachedPath] = "open"
                    /\ dbCache'[ops[o].cachedPath] = NoHandle
                    /\ leakedHandles' = leakedHandles \cup {ops[o].cachedPath} ]_vars
    /\ [](storeChanges = 0 => leakedHandles = {})

\* One call's invalidation closed and removed the handle through which
\* another call's query is in flight, and no handle is open outside the
\* handle cache.
C30_Witness ==
    \E o \in OpIds, d \in Paths :
        /\ QueryInFlight(o, d)
        /\ dbCache[d] = NoHandle
        /\ namespaceDbMapping["N1"] = NoPath
        /\ \E other \in OpIds \ {o} : ops[other].pc = "dir" /\ ops[other].cachedPath = d
        /\ leakedHandles = {}

\* C31: the database path that a getKVData or getValue call for a project
\* uses is a candidate file of that project's own candidate directory, also
\* after another project binding the same namespace id was resolved on the
\* same provider.
C31_ProjectIsolation ==
    (last.op \in {"getKVData", "getValue"} /\ last.res.found # NoPath) =>
        /\ last.res.found[1] = last.p
        /\ last.res.found[2] \in DbFileNames(last.p)

\* The provider has been disposed of and no call is in flight.
DisposedAndQuiet == \A o \in OpIds : ops[o].disposed /\ ops[o].pc = "idle"

\* C32: once dispose has run and every call that was in flight then has
\* returned, both caches are empty and no handle is open (a handle whose
\* close() threw apart).
C32_NoHandleAfterDispose ==
    DisposedAndQuiet =>
        /\ CachedHandles = {}
        /\ \A n \in Namespaces : namespaceDbMapping[n] = NoPath
        /\ storeChanges = 0 => leakedHandles = {}

\* The call o found its cached path missing; the file is there again and
\* another call has cached a path for the namespace since; o runs its
\* catch branch in this step.
LateInvalidation(o) ==
    /\ ops[o].pc = "missing"
    /\ ops[o].overtaken
    /\ DbFileExists(ops[o].cachedPath)
    /\ ops'[o].pc = "dir"

\* C33: a resolve that found its cached path missing removes no entry of
\* the resolution cache, and closes no handle, that another resolve for the
\* same namespace id installed after re-probing.
C33_InvalidationRemovesOnlyStale ==
    [][ \A o \in OpIds :
          LateInvalidation(o) =>
              /\ namespaceDbMapping'[ops[o].n] = namespaceDbMapping[ops[o].n]
              /\ dbCache'[ops[o].cachedPath] = dbCache[ops[o].cachedPath] ]_vars

\* No search pass (live search or performSearch) is in flight.
NoPassRunning == \A id \in PassIds : ~Running(passes[id])

\* C34: once every performSearch call has finished, however the calls
\* overlapped, each key that searchResults holds for a (project, namespace)
\* pair matches the current searchTerm by key subsequence or by value
\* substring: no pair keeps a key that matched an earlier term only.
C34_ResultsMatchCurrentTerm ==
    (NoPassRunning /\ tree.searchTerm # << >>) =>
        \A c \in CacheKeys : tree.searchResults[c] \subseteq MatchingKeys(c, tree.searchTerm)

\* C35: whenever searchTerm is empty and no search pass is in flight,
\* searchResults is empty, also when the search was cleared while a
\* performSearch call was suspended at an await.
C35_ClearedStaysCleared ==
    (NoPassRunning /\ tree.searchTerm = << >>) => tree.searchResults = NoResults

\* The (project, namespace, key) triples of the keys the tree shows: the
\* children of the namespaces under the workers under the root.
TreeShows(tr) ==
    UNION { UNION { { Item(<< rootChildren(tr)[i], workerChildren(tr, rootChildren(tr)[i])[j] >>,
                           namespaceChildren(tr, << rootChildren(tr)[i],
                                                    workerChildren(tr, rootChildren(tr)[i])[j] >>)[k].key) :
                        k \in 1 .. Len(namespaceChildren(tr, << rootChildren(tr)[i],
                                           workerChildren(tr, rootChildren(tr)[i])[j] >>)) } :
                    j \in 1 .. Len(workerChildren(tr, rootChildren(tr)[i])) } :
            i \in 1 .. Len(rootChildren(tr)) }

\* C36: after a live-search pass for a non-empty value that found a match
\* has completed with no other search in flight, the (project, namespace,
\* key) triples listed in the quick pick are exactly the keys the filtered
\* tree shows, also when the store changed after the tree first listed the
\* namespace.
C36_QuickPickAgreesWithTree ==
    \A id \in PassIds : (CompletedAlone(id) /\ quickPick.items # << >>) =>
        { quickPick.items[k] : k \in 1 .. Len(quickPick.items) } = TreeShows(tree)

\* C37: once refresh(uri) has run and every call of
\* provideTextDocumentContent for the URI has finished, the content cached
\* for the URI is not the content of a call that was suspended in getValue
\* when refresh ran: it was fetched by a call started after the refresh.
C37_NoContentFromBeforeRefresh ==
    \A uri \in Uris :
        (uri \notin documents.pending /\ documents.contentCache[uri] # NoContent) =>
            uri \notin documents.raced

\* The copyValue command runs for uri in this step.
Copies(uri) ==
    /\ documents'.asked = uri
    /\ documents.asked # uri
    /\ last'.op = "getValue"
    /\ << last'.p, last'.n, last'.key >> = uri

\* C38: when getValue finds the key's entry and its content file exists, a
\* call of provideTextDocumentContent that fetched with getValue returns the
\* content (JSON re-indented) and not the placeholder, and copyValue writes
\* the content to the clipboard, whatever the content, the empty string
\* included.
C38_ExistingValueShown ==
    [][ \A uri \in Uris :
          (last'.res.found # NoPath /\ StoreText(uri) # NoContent) =>
              /\ ReturnsFetched(uri) => documents'.out = formatContent(StoreText(uri))
              /\ Copies(uri) => documents'.clipboard = StoreText(uri) ]_vars

====
